---- MODULE Spec2Model ----
(***************************************************************************)
(* The InvestInGas relayer: the purchase and redeem request handlers of    *)
(* index.ts with the clients they call (evm-client.ts, sui-reader.ts,      *)
(* lifi-client.ts), as a state machine over the hook contract's positions, *)
(* the oracle's price and the wall clock.  Every await of a handler is one *)
(* step boundary: what runs between two awaits is one action.              *)
(***************************************************************************)
EXTENDS Integers, Sequences, FiniteSets, TLC

(***************************************************************************)
(* Bounds of the model.                                                    *)
(***************************************************************************)
\* wethAmount of the position that exists at start (base units, scaled down)
MaxAmount == 2
\* how many times the wall clock advances
MaxTicks == 2
\* how many requests the relayer receives in one behaviour
MaxRequests == 2
\* evm-client.ts:175 const batchSize = 50, scaled down: ownership checks
\* issued at once by getUserPositions
batchSize == 2
\* token ids 0..MaxTokenId can exist when getUserPositions scans
MaxTokenId == 3
\* how many tokens change hands while getUserPositions scans
MaxTransfers == 1
\* how many getUserPositions calls one behaviour makes
MaxScans == 1
\* how many chains the oracle's supported_chains list names at most
MaxChains == 3
\* how many fetchAllPrices calls one behaviour makes
MaxFetches == 1
\* MAX_SLIPPAGE_BPS is unset, empty, not a number, 100, or 0..MaxSlippageBps
MaxSlippageBps == 2
\* how many getQuote calls one behaviour makes
MaxQuotes == 1

(***************************************************************************)
(* Program constants.                                                      *)
(***************************************************************************)
\* index.ts:43  const PRICE_STALENESS_MS = 5 * 60 * 1000
PRICE_STALENESS_MS == 300000
\* index.ts:228 parseInt(expiryDays) * 24 * 60 * 60
SECONDS_PER_DAY == 86400
\* index.ts:232 const minWethOut = 0n
minWethOut == 0

(***************************************************************************)
(* The clock.  Date.now() is in milliseconds; the clock starts one         *)
(* millisecond before second StartSec and advances by the steps of         *)
(* TickSteps, so that a request can run before, in and after the second    *)
(* in which the first position expires.                                    *)
(***************************************************************************)
StartSec == 1000
StartMs == StartSec * 1000 - 1
TickSteps == {1, 1000}
\* ages (ms) the oracle's price can have when the model starts
PriceAges == {0, PRICE_STALENESS_MS, 360000}

\* Math.floor(Date.now() / 1000)
floorSeconds(ms) == ms \div 1000

(***************************************************************************)
(* Strings whose letter case matters (addresses) are sequences of          *)
(* characters; String.prototype.toLowerCase maps them letter by letter.    *)
(***************************************************************************)
lowerChar(c) ==
    CASE c = "A" -> "a"
      [] c = "B" -> "b"
      [] c = "C" -> "c"
      [] c = "D" -> "d"
      [] OTHER -> c

toLowerCase(str) == [i \in DOMAIN str |-> lowerChar(str[i])]

\* the letter case in which the chain prints an address (a stand-in for the
\* EIP-55 checksum case: first letter upper, the rest lower)
upperChar(c) ==
    CASE c = "a" -> "A"
      [] c = "b" -> "B"
      [] c = "c" -> "C"
      [] c = "d" -> "D"
      [] OTHER -> c

getAddress(str) ==
    [i \in DOMAIN str |-> IF i = 1 THEN upperChar(lowerChar(str[i])) ELSE lowerChar(str[i])]

\* the owner of the first position, as ownerOf returns it (checksum case)
OwnerAddr == <<"A", "b">>
\* the address recovered from a signature over another message
GarbageAddr == <<"9", "f">>
\* user addresses a request can carry: the owner in lower case, the owner in
\* upper case, and somebody else
UserAddrs == {<<"a", "b">>, <<"A", "B">>, <<"c", "d">>}
\* a missing (undefined) string field; the empty string is as falsy
Undefined == <<>>

(***************************************************************************)
(* JSON values of the numeric fields of a request body: undefined, a       *)
(* number, a numeric string, or the string "max".                          *)
(***************************************************************************)
JUndef == [form |-> "undef", n |-> 0]
JNum(n) == [form |-> "num", n |-> n]
JStr(n) == [form |-> "str", n |-> n]
JMax == [form |-> "max", n |-> 0]
\* a number that is not an integer (1.5)
JFrac == [form |-> "frac", n |-> 0]

\* JavaScript truthiness, as `!x` tests it
Truthy(v) ==
    CASE v.form = "undef" -> FALSE
      [] v.form = "num" -> v.n # 0
      [] OTHER -> TRUE

\* BigInt(x) and parseInt(x) of a number or a numeric string
BigInt(v) == v.n
parseInt(v) == v.n
\* BigInt(x) throws a RangeError for a number that is not an integer
BigIntThrows(v) == v.form = "frac"

(***************************************************************************)
(* Signatures.  A well-formed signature is a signing key's address and     *)
(* the structured message that was signed; recovery over the message the   *)
(* verifier builds gives the signer when the two messages are the same     *)
(* and an unrelated address otherwise.  An address field is encoded        *)
(* independently of its letter case.                                       *)
(***************************************************************************)
NoSig == [form |-> "undef", signer |-> Undefined, msg |-> <<>>]
BadSig == [form |-> "bad", signer |-> Undefined, msg |-> <<>>]
Signed(key, message) == [form |-> "sig", signer |-> key, msg |-> message]

PurchaseMessage(user, usdcAmount, targetChain, expiryDays, timestamp) ==
    <<"Purchase", toLowerCase(user), usdcAmount, targetChain, expiryDays, timestamp>>

RedeemMessage(user, tokenId, wethAmount, timestamp) ==
    <<"Redeem", toLowerCase(user), tokenId, wethAmount, timestamp>>

\* ethers.verifyTypedData(domain, types, value, signature)
verifyTypedData(message, signature) ==
    IF signature.msg = message THEN signature.signer ELSE GarbageAddr

\* evm-client.ts:282-288, 326-331: the value to verify is built before the
\* try block, and BigInt(timestamp) throws out of the verifier
verifierThrows(timestamp) == BigIntThrows(timestamp)

\* mutant: the recovered address is never compared with the user
verifyPurchaseSignatureAnySigner(user, usdcAmount, targetChain, expiryDays, timestamp, signature) ==
    signature.form = "sig"

verifyPurchaseSignature(user, usdcAmount, targetChain, expiryDays, timestamp, signature) ==
    IF signature.form # "sig"
    THEN FALSE
    ELSE toLowerCase(verifyTypedData(
             PurchaseMessage(user, usdcAmount, targetChain, expiryDays, timestamp),
             signature)) = toLowerCase(user)

verifyRedeemSignature(user, tokenId, wethAmount, timestamp, signature) ==
    IF signature.form # "sig"
    THEN FALSE
    ELSE toLowerCase(verifyTypedData(
             RedeemMessage(user, tokenId, wethAmount, timestamp),
             signature)) = toLowerCase(user)

(***************************************************************************)
(* State.                                                                  *)
(***************************************************************************)
VARIABLES
    req,          \* per request slot: the handler's position and its locals
    positions,    \* the hook contract: tokenId -> position
    oracle,       \* the Sui oracle: the price published for PricedChain
    nowMs,        \* the wall clock, Date.now()
    ticks,        \* how often the clock advanced
    served,       \* how many requests were received
    sourceChain,  \* config.sourceChain (SOURCE_CHAIN, default "sepolia")
    scan,         \* the getUserPositions call in progress and its locals
    fetch,        \* the fetchAllPrices call in progress and its locals
    lifi          \* the LiFiClient: its maxSlippageBps and the quote it is asked for

vars == <<req, positions, oracle, nowMs, ticks, served, sourceChain, scan, fetch, lifi>>

\* request slots: handlers that can be in flight at the same time
Slots == {1}

(***************************************************************************)
(* The collaborators' tables.                                              *)
(***************************************************************************)
\* chains with chainIds(chain) > 0 on the hook contract
HookChains == {"sepolia", "arbitrum", "base"}
\* the chain the oracle publishes a price for
PricedChain == "arbitrum"
\* lifi-client.ts CHAIN_IDS: the chain names the bridge client knows
CHAIN_IDS == {"ethereum", "arbitrum", "base", "polygon", "optimism"}
\* SOURCE_CHAIN with the target chain of the position that exists at start:
\* the same chain, two chains the bridge client knows, and the default
\* source chain with another target
ChainSetups == {<<"sepolia", "sepolia">>, <<"ethereum", "arbitrum">>,
                <<"sepolia", "arbitrum">>}

NoPosition ==
    [tokenId |-> -1, wethAmount |-> 0, remainingWethAmount |-> 0,
     lockedGasPriceWei |-> 0, purchaseTimestamp |-> 0, expiry |-> 0,
     targetChain |-> "", owner |-> Undefined]

NoPrice == [chain |-> "", priceWei |-> 0, timestampMs |-> 0]

NoQuote == [calldata |-> <<>>, bridgeTool |-> "", estimatedReceive |-> 0, minReceive |-> 0]

\* index.ts:328-329: lifiData = '0x' (no bytes), bridgeInfo = { type: 'direct' }
EmptyCalldata == <<>>
DirectBridge ==
    [type |-> "direct", tool |-> "", estimatedReceive |-> JUndef, minReceive |-> JUndef]

NoResult ==
    [tokenId |-> -1, lockedGasPriceWei |-> 0, expiryTimestamp |-> 0,
     wethRedeemed |-> -1, targetChain |-> "", bridge |-> DirectBridge,
     staleSinceMs |-> 0]

\* a JS number that is not a number, and the result of dividing it
NaN == [form |-> "nan", n |-> 0]
NaNFraction == [num |-> 0, den |-> 0]
\* no query sent to the aggregator
NoQuery == [fromChain |-> "", toChain |-> "", fromAmount |-> JUndef,
            toAddress |-> Undefined, slippage |-> JUndef]

\* lifi-client.ts:71-74: a LiFiClient constructed with the default
\* maxSlippageBps = 100, no getQuote call in progress
IdleLifi ==
    [pc |-> "idle", env |-> JUndef, maxSlippageBps |-> JNum(100),
     slippage |-> NaNFraction, query |-> NoQuery, quote |-> NoQuote,
     calls |-> 0, sent |-> 0]

\* no fetchAllPrices call in progress
IdleFetch ==
    [pc |-> "idle", supported |-> <<>>, table |-> {}, k |-> 0, prices |-> <<>>,
     result |-> <<>>, outcomes |-> <<>>, listResolved |-> FALSE, calls |-> 0]

\* no getUserPositions call in progress
IdleScan ==
    [pc |-> "idle", user |-> Undefined, maxScanId |-> 0, balance |-> -1,
     i |-> 0, limit |-> 0, pending |-> {}, results |-> <<>>, cursor |-> 0,
     owner |-> Undefined, found |-> <<>>, result |-> <<>>,
     checked |-> {}, failed |-> {}, batches |-> 0, foundAtIssue |-> 0,
     balanceFailed |-> FALSE, checkFailed |-> FALSE, positionFailed |-> FALSE,
     moved |-> FALSE, scans |-> 0, transfers |-> 0]

\* a slot with no request in it
\* what is remembered, for the properties only, of the request a slot served
\* before: the body of a purchase that reached the settlement call
NoPrior == [body |-> <<>>]

IdleReq ==
    [pc |-> "idle", kind |-> "none", body |-> <<>>,
     owner |-> Undefined, position |-> NoPosition, gasPrice |-> NoPrice,
     now |-> 0, redeemAmount |-> 0, lifiData |-> <<>>, bridgeInfo |-> DirectBridge,
     lockedGasPriceWei |-> 0, expiryDuration |-> 0,
     status |-> 0, error |-> "", result |-> NoResult, responses |-> 0,
     purchaseCalls |-> 0, redeemCalls |-> 0, callAmount |-> -1,
     sigChecks |-> 0, sigAmount |-> -1, quoteCalls |-> 0,
     quoteArgs |-> <<>>, quote |-> NoQuote, sigRaised |-> FALSE,
     ownerOfFailed |-> FALSE, detailFailed |-> FALSE, settleOutcome |-> "none",
     collaboratorError |-> "none", minted |-> -1, purchaseArgs |-> <<>>,
     prior |-> NoPrior, chainReads |-> 0, priceReads |-> 0]

(***************************************************************************)
(* The hook contract (InvestInGasHook), the external settlement            *)
(* collaborator, at its interface.                                         *)
(***************************************************************************)
tokenExists(tokenId) == tokenId \in DOMAIN positions

\* purchasePosition mints the next token id for the buyer
hookPurchasePosition(usdcAmount, minOut, lockedGasPriceWei, targetChain, expiryDuration, buyer) ==
    LET tokenId == Cardinality(DOMAIN positions)
        minted == [wethAmount |-> usdcAmount, remainingWethAmount |-> usdcAmount,
                   lockedGasPriceWei |-> lockedGasPriceWei,
                   purchaseTimestamp |-> floorSeconds(nowMs),
                   expiry |-> floorSeconds(nowMs) + expiryDuration,
                   targetChain |-> targetChain, owner |-> getAddress(buyer)]
    IN [t \in 0..tokenId |-> IF t = tokenId THEN minted ELSE positions[t]]

\* the logs of the receipt of a purchasePosition transaction that minted
\* tokenId: the ERC721 Transfer and the hook's PositionPurchased
receiptLogs(tokenId) ==
    <<[name |-> "Transfer", tokenId |-> tokenId],
      [name |-> "PositionPurchased", tokenId |-> tokenId]>>

\* redeemPosition reverts when the amount exceeds what remains
hookRedeemReverts(tokenId, wethAmount) ==
    \/ ~tokenExists(tokenId)
    \/ wethAmount > positions[tokenId].remainingWethAmount

hookRedeemPosition(tokenId, wethAmount) ==
    [positions EXCEPT ![tokenId].remainingWethAmount = @ - wethAmount]

(***************************************************************************)
(* Request bodies.                                                         *)
(***************************************************************************)
\* a signing key that belongs to none of the users
IntruderKey == <<"e", "f">>
\* the timestamp field of an intent
IntentTimestamp == JNum(1)

PurchaseBody(user, usdcAmount, targetChain, expiryDays, userSignature, timestamp) ==
    [user |-> user, usdcAmount |-> usdcAmount, targetChain |-> targetChain,
     expiryDays |-> expiryDays, userSignature |-> userSignature,
     timestamp |-> timestamp]

RedeemBody(user, tokenId, wethAmount, userSignature, timestamp) ==
    [user |-> user, tokenId |-> tokenId, wethAmount |-> wethAmount,
     userSignature |-> userSignature, timestamp |-> timestamp]

\* signatures a purchase request can carry: malformed, or made by the user's
\* key or by another key, over the request's fields or over another amount
PurchaseSignatures(user, usdcAmount, targetChain, expiryDays, timestamp) ==
    {BadSig} \cup
    { Signed(key, PurchaseMessage(user, a, targetChain, BigInt(expiryDays), BigInt(timestamp))) :
        key \in {toLowerCase(user), IntruderKey},
        a \in {BigInt(usdcAmount), BigInt(usdcAmount) + 1} }

PurchaseUsers == {<<"a", "b">>, <<"A", "B">>}
PurchaseChains == {"arbitrum", "base", "solana"}

FullPurchaseBodies ==
    UNION { { PurchaseBody(u, JStr(1), c, JStr(1), sig, IntentTimestamp) :
                sig \in PurchaseSignatures(u, JStr(1), c, JStr(1), IntentTimestamp) } :
            u \in PurchaseUsers, c \in PurchaseChains }

\* a purchase body with one of its fields left out
PartialPurchaseBodies ==
    LET u == <<"a", "b">>
        sig == Signed(u, PurchaseMessage(u, 1, PricedChain, 1, 1))
    IN { PurchaseBody(Undefined, JStr(1), PricedChain, JStr(1), sig, IntentTimestamp),
         PurchaseBody(u, JUndef, PricedChain, JStr(1), sig, IntentTimestamp),
         PurchaseBody(u, JNum(0), PricedChain, JStr(1), sig, IntentTimestamp),
         PurchaseBody(u, JStr(1), "", JStr(1), sig, IntentTimestamp),
         PurchaseBody(u, JStr(1), PricedChain, JUndef, sig, IntentTimestamp),
         PurchaseBody(u, JStr(1), PricedChain, JStr(1), NoSig, IntentTimestamp),
         PurchaseBody(u, JStr(1), PricedChain, JStr(1), sig, JUndef) }

\* a purchase body whose amount or expiry is zero, as a JSON number or as a
\* numeric string, signed by the user over exactly these fields
ZeroPurchaseBodies ==
    LET u == <<"a", "b">>
        body(amount, days) ==
            PurchaseBody(u, amount, PricedChain, days,
                         Signed(u, PurchaseMessage(u, BigInt(amount), PricedChain,
                                                   parseInt(days), 1)),
                         IntentTimestamp)
    IN { body(JStr(0), JStr(0)), body(JStr(1), JNum(0)) }

\* a purchase body whose timestamp is not an integer, the signature
\* malformed or made over the whole second
FractionalPurchaseBodies ==
    LET u == <<"a", "b">>
    IN { PurchaseBody(u, JStr(1), PricedChain, JStr(1), sig, JFrac) :
           sig \in {BadSig, Signed(u, PurchaseMessage(u, 1, PricedChain, 1, 1))} }

\* the signature of a valid intent, carried by a request that names another
\* user, chain, expiry or timestamp
ReusedPurchaseBodies ==
    LET u == <<"a", "b">>
        sig == Signed(u, PurchaseMessage(u, 1, PricedChain, 1, 1))
    IN { PurchaseBody(<<"c", "d">>, JStr(1), PricedChain, JStr(1), sig, IntentTimestamp),
         PurchaseBody(u, JStr(1), PricedChain, JStr(1),
                      Signed(u, PurchaseMessage(u, 1, "base", 1, 1)), IntentTimestamp),
         PurchaseBody(u, JStr(1), PricedChain, JStr(2), sig, IntentTimestamp),
         PurchaseBody(u, JStr(1), PricedChain, JStr(1), sig, JNum(2)) }

PurchaseBodies ==
    FullPurchaseBodies \cup PartialPurchaseBodies \cup FractionalPurchaseBodies
        \cup ReusedPurchaseBodies \cup ZeroPurchaseBodies

\* amounts a redeem request can name: "max", or a numeric string up to one
\* more than any position holds
RedeemAmounts == {JMax} \cup {JStr(n) : n \in 0..(MaxAmount + 1)}

\* the amounts the signature of a redeem request can be over
SignedAmounts(wethAmount) ==
    IF wethAmount = JMax THEN 0..MaxAmount ELSE {BigInt(wethAmount), BigInt(wethAmount) + 1}

RedeemSignatures(user, tokenId, wethAmount, timestamp) ==
    {BadSig} \cup
    { Signed(key, RedeemMessage(user, parseInt(tokenId), a, BigInt(timestamp))) :
        key \in {toLowerCase(user), IntruderKey},
        a \in SignedAmounts(wethAmount) }

\* requests for the first position by its owner, the address written in
\* lower case or as the chain prints it: every amount, every signature
OwnerRedeemBodies ==
    UNION { { RedeemBody(u, JNum(0), w, sig, IntentTimestamp) :
                sig \in RedeemSignatures(u, JNum(0), w, IntentTimestamp) } :
            u \in {<<"a", "b">>, OwnerAddr}, w \in RedeemAmounts }

\* requests by somebody else, or for the token after the first: signed by
\* the user's own key over the request, or with a malformed signature
OtherRedeemBodies ==
    UNION { { RedeemBody(u, t, w, sig, IntentTimestamp) :
                sig \in {BadSig,
                         Signed(toLowerCase(u),
                                RedeemMessage(u, parseInt(t),
                                              IF w = JMax THEN 1 ELSE BigInt(w), 1))} } :
            u \in UserAddrs, t \in {JNum(0), JNum(1)},
            w \in {JMax, JStr(1), JStr(MaxAmount + 1)} }

FullRedeemBodies == OwnerRedeemBodies \cup OtherRedeemBodies

\* a redeem body with one of its fields left out
PartialRedeemBodies ==
    LET u == <<"a", "b">>
        sig == Signed(u, RedeemMessage(u, 0, 1, 1))
    IN { RedeemBody(Undefined, JNum(0), JStr(1), sig, IntentTimestamp),
         RedeemBody(u, JUndef, JStr(1), sig, IntentTimestamp),
         RedeemBody(u, JNum(0), JUndef, sig, IntentTimestamp),
         RedeemBody(u, JNum(0), JNum(0), sig, IntentTimestamp),
         RedeemBody(u, JNum(0), JStr(1), NoSig, IntentTimestamp),
         RedeemBody(u, JNum(0), JStr(1), sig, JUndef) }

\* a redeem body whose timestamp is not an integer
FractionalRedeemBodies ==
    LET u == <<"a", "b">>
    IN { RedeemBody(u, JNum(0), JStr(1), sig, JFrac) :
           sig \in {BadSig, Signed(u, RedeemMessage(u, 0, 1, 1))} }

\* the signature of a valid intent, carried by a request that names another
\* user, token or timestamp
ReusedRedeemBodies ==
    LET u == <<"a", "b">>
        v == <<"c", "d">>
    IN { RedeemBody(u, JNum(0), JStr(1), Signed(v, RedeemMessage(v, 0, 1, 1)),
                    IntentTimestamp),
         RedeemBody(u, JNum(1), JStr(1), Signed(u, RedeemMessage(u, 0, 1, 1)),
                    IntentTimestamp),
         RedeemBody(u, JNum(0), JStr(1), Signed(u, RedeemMessage(u, 0, 1, 1)),
                    JNum(2)) }

RedeemBodies ==
    FullRedeemBodies \cup PartialRedeemBodies \cup FractionalRedeemBodies
        \cup ReusedRedeemBodies

(***************************************************************************)
(* The handlers' decisions, as index.ts takes them.                        *)
(***************************************************************************)
\* mutant: the error response is sent without the return that follows it
respondWithoutReturn(r, st, err) ==
    [r EXCEPT !.status = st, !.error = err, !.responses = @ + 1]

\* res.status(st).json({ error }); return
respond(r, st, err) ==
    [r EXCEPT !.pc = "done", !.status = st, !.error = err, !.responses = @ + 1]

\* index.ts:181
missingPurchaseFields(body) ==
    \/ body.user = Undefined
    \/ ~Truthy(body.usdcAmount)
    \/ body.targetChain = ""
    \/ ~Truthy(body.expiryDays)
    \/ body.userSignature.form = "undef"
    \/ ~Truthy(body.timestamp)

\* index.ts:276
missingRedeemFields(body) ==
    \/ body.user = Undefined
    \/ body.tokenId.form = "undef"
    \/ ~Truthy(body.wethAmount)
    \/ body.userSignature.form = "undef"
    \/ ~Truthy(body.timestamp)

\* evm-client.ts:220  chainIds(chain) > 0n
isChainSupported(chain) == chain \in HookChains

\* sui-reader.ts fetchChainPrice: the published price, or null
fetchChainPrice(chain) ==
    IF chain = PricedChain
    THEN [chain |-> chain, priceWei |-> oracle.priceWei, timestampMs |-> oracle.timestampMs]
    ELSE NoPrice

\* mutant: a price exactly PRICE_STALENESS_MS old counts as stale
priceIsStaleAtThreshold(now, gasPrice) ==
    now - gasPrice.timestampMs >= PRICE_STALENESS_MS

\* index.ts:201
priceIsStale(now, gasPrice) == now - gasPrice.timestampMs > PRICE_STALENESS_MS

\* mutant: the addresses are compared as written
notPositionOwnerExact(position, user) == position.owner # user

\* index.ts:289
notPositionOwner(position, user) == toLowerCase(position.owner) # toLowerCase(user)

\* index.ts:295
positionExpired(position, now) == position.expiry < floorSeconds(now)

\* mutant: "max" resolves to the amount purchased, not to what remains
resolveRedeemAmountToTotal(wethAmount, position) ==
    IF wethAmount = JMax THEN position.wethAmount ELSE BigInt(wethAmount)

\* index.ts:301-306
resolveRedeemAmount(wethAmount, position) ==
    IF wethAmount = JMax THEN position.remainingWethAmount ELSE BigInt(wethAmount)

\* mutant: the amount is compared with the amount purchased
insufficientOfTotal(redeemAmount, position) ==
    redeemAmount > position.wethAmount

\* index.ts:308
insufficientRemaining(redeemAmount, position) ==
    redeemAmount > position.remainingWethAmount

\* mutant: every redeem is taken for a cross-chain one
isSameChainNever(fromChain, toChain) == FALSE

\* lifi-client.ts:188
isSameChain(fromChain, toChain) == fromChain = toChain

\* mutant: only the target chain is looked up
quoteUnsupportedTarget(fromChain, toChain) == toChain \notin CHAIN_IDS

\* lifi-client.ts:91-96: getQuote throws before any request is sent
quoteUnsupported(fromChain, toChain) ==
    fromChain \notin CHAIN_IDS \/ toChain \notin CHAIN_IDS

\* lifi-client.ts:132-138: the quote the aggregator answers with
lifiQuote(fromChain, toChain, amount, toAddress) ==
    [calldata |-> <<"lifi", fromChain, toChain, amount, toAddress>>,
     bridgeTool |-> "across", estimatedReceive |-> amount, minReceive |-> amount]

\* the aggregator chooses the tool and the slippage it quotes
lifiQuotes(fromChain, toChain, amount, toAddress) ==
    { lifiQuote(fromChain, toChain, amount, toAddress),
      [calldata |-> <<"lifi2", fromChain, toChain, amount, toAddress>>,
       bridgeTool |-> "stargate", estimatedReceive |-> amount,
       minReceive |-> IF amount > 0 THEN amount - 1 ELSE 0] }

\* bigint.toString(): the decimal string of the number
toString(n) == JStr(n)

(***************************************************************************)
(* POST /api/purchase (index.ts:169-261).                                  *)
(***************************************************************************)
\* mutant: only a revert raises; a transaction that is never mined counts
\* as settled
settlementRaisesOnRevertOnly(outcome) == outcome = "reverted"

\* evm-client.ts:87-95, 129-135: the awaited contract call and tx.wait()
\* reject unless the transaction is mined without reverting
settlementRaises(outcome) == outcome # "mined"

\* mutant: a failed purchase is submitted again
purchaseRetry(r) == [r EXCEPT !.purchaseCalls = @ + 1]

\* index.ts:257-260
purchaseFailure(r) == respond(r, 500, "Purchase failed")

\* mutant: the expiry is passed on in days
purchaseCallExpiryInDays(r) ==
    <<BigInt(r.body.usdcAmount), minWethOut, BigInt(JStr(r.gasPrice.priceWei)),
      r.body.targetChain, parseInt(r.body.expiryDays), r.body.user>>

\* index.ts:225-245: the arguments of evmClient.purchasePosition
purchaseCall(r) ==
    <<BigInt(r.body.usdcAmount), minWethOut, BigInt(JStr(r.gasPrice.priceWei)),
      r.body.targetChain, parseInt(r.body.expiryDays) * SECONDS_PER_DAY, r.body.user>>

\* mutant: an intent that reached settlement before is refused
purchaseVerifyOnceAndSubmit(r) ==
    LET b == r.body
        checked == [r EXCEPT !.sigChecks = @ + 1, !.sigAmount = BigInt(b.usdcAmount)]
    IN IF verifierThrows(b.timestamp)
       THEN purchaseFailure([checked EXCEPT !.sigRaised = TRUE])
       ELSE IF \/ r.prior.body = b
               \/ ~verifyPurchaseSignature(b.user, BigInt(b.usdcAmount), b.targetChain,
                                           parseInt(b.expiryDays), BigInt(b.timestamp),
                                           b.userSignature)
       THEN respond(checked, 403, "Invalid user signature")
       ELSE [checked EXCEPT !.pc = "p_settle",
                            !.lockedGasPriceWei = BigInt(JStr(r.gasPrice.priceWei)),
                            !.expiryDuration = parseInt(b.expiryDays) * SECONDS_PER_DAY,
                            !.purchaseCalls = @ + 1,
                            !.purchaseArgs = purchaseCall(r),
                            !.callAmount = BigInt(b.usdcAmount)]

\* index.ts:209-245: the signature check and, when it passes, the call of
\* evmClient.purchasePosition
purchaseVerifyAndSubmit(r) ==
    LET b == r.body
        checked == [r EXCEPT !.sigChecks = @ + 1, !.sigAmount = BigInt(b.usdcAmount)]
    IN IF verifierThrows(b.timestamp)
       THEN purchaseFailure([checked EXCEPT !.sigRaised = TRUE])
       ELSE IF ~verifyPurchaseSignature(b.user, BigInt(b.usdcAmount), b.targetChain,
                                   parseInt(b.expiryDays), BigInt(b.timestamp),
                                   b.userSignature)
       THEN respond(checked, 403, "Invalid user signature")
       ELSE [checked EXCEPT !.pc = "p_settle",
                            !.lockedGasPriceWei = BigInt(JStr(r.gasPrice.priceWei)),
                            !.expiryDuration = parseInt(b.expiryDays) * SECONDS_PER_DAY,
                            !.purchaseCalls = @ + 1,
                            !.purchaseArgs = purchaseCall(r),
                            !.callAmount = BigInt(b.usdcAmount)]

\* mutant: the signature is verified before the age of the price is looked at
purchaseAfterPriceVerifyingFirst(r, gasPrice) ==
    IF gasPrice = NoPrice
    THEN respond(r, 400, "Failed to fetch gas price for chain")
    ELSE LET read == [r EXCEPT !.gasPrice = gasPrice, !.now = nowMs]
             verified == purchaseVerifyAndSubmit(read)
         IN IF verified.pc # "done" /\ priceIsStale(nowMs, gasPrice)
            THEN respond([read EXCEPT !.result.staleSinceMs = nowMs - gasPrice.timestampMs,
                                      !.sigChecks = @ + 1],
                         400, "Gas price is stale")
            ELSE verified

\* index.ts:194-207: the price that was fetched, and the staleness gate
purchaseAfterPrice(r, gasPrice) ==
    IF gasPrice = NoPrice
    THEN respond(r, 400, "Failed to fetch gas price for chain")
    ELSE LET read == [r EXCEPT !.gasPrice = gasPrice, !.now = nowMs]
         IN IF priceIsStale(nowMs, gasPrice)
            THEN respond([read EXCEPT !.result.staleSinceMs = nowMs - gasPrice.timestampMs],
                         400, "Gas price is stale")
            ELSE purchaseVerifyAndSubmit(read)

\* evm-client.ts:9-28: the event fragments of HOOK_ABI (it lists functions
\* only)
HOOK_ABI_events == {}

\* evm-client.ts:100: this.contract.interface.parseLog(log) answers null for
\* a log of no fragment of the interface
parseLog(log) == IF log.name \in HOOK_ABI_events THEN log ELSE [name |-> "", tokenId |-> 0]

\* evm-client.ts:97-111: the token id of the first log that parses as
\* PositionPurchased, 0n when there is none
RECURSIVE parsedTokenId(_)
parsedTokenId(logs) ==
    IF logs = <<>> THEN 0
    ELSE IF parseLog(Head(logs)).name = "PositionPurchased"
    THEN parseLog(Head(logs)).tokenId
    ELSE parsedTokenId(Tail(logs))

\* index.ts:249-256
purchaseSuccess(r, tokenId) ==
    [r EXCEPT !.pc = "done", !.status = 200, !.responses = @ + 1,
              !.result.tokenId = tokenId,
              !.result.lockedGasPriceWei = r.lockedGasPriceWei,
              !.result.expiryTimestamp = floorSeconds(nowMs) + r.expiryDuration]

\* the request arrives: index.ts:171-187
PurchaseReceive(s) ==
    /\ req[s].pc = "idle"
    /\ served < MaxRequests
    /\ \E body \in PurchaseBodies :
         LET r == [IdleReq EXCEPT !.kind = "purchase", !.body = body,
                                  !.prior = req[s].prior]
         IN req' = [req EXCEPT ![s] =
                      IF missingPurchaseFields(body)
                      THEN respond(r, 400, "Missing required fields")
                      ELSE [r EXCEPT !.pc = "p_chain"]]
    /\ served' = served + 1
    /\ UNCHANGED <<positions, oracle, nowMs, ticks, sourceChain, scan, fetch, lifi>>

\* evmClient.isChainSupported answers or throws: index.ts:187-194
PurchaseChainSupported(s) ==
    /\ req[s].pc = "p_chain"
    /\ \E answered \in BOOLEAN :
         req' = [req EXCEPT ![s] =
                   IF ~answered
                   THEN purchaseFailure([@ EXCEPT !.collaboratorError = "chain-support",
                                                  !.chainReads = @ + 1])
                   ELSE IF ~isChainSupported(@.body.targetChain)
                   THEN respond([@ EXCEPT !.chainReads = @ + 1], 400, "Chain not supported")
                   ELSE [@ EXCEPT !.pc = "p_price", !.chainReads = @ + 1]]
    /\ UNCHANGED <<positions, oracle, nowMs, ticks, served, sourceChain, scan, fetch, lifi>>

\* suiOracle.fetchChainPrice answers, with null when one of its reads
\* threw (sui-reader.ts:117-120): index.ts:194-245
PurchasePrice(s) ==
    /\ req[s].pc = "p_price"
    /\ \E answered \in BOOLEAN :
         req' = [req EXCEPT ![s] =
                   IF answered
                   THEN purchaseAfterPrice([@ EXCEPT !.priceReads = @ + 1],
                                           fetchChainPrice(@.body.targetChain))
                   ELSE purchaseAfterPrice([@ EXCEPT !.collaboratorError = "price",
                                                     !.priceReads = @ + 1], NoPrice)]
    /\ UNCHANGED <<positions, oracle, nowMs, ticks, served, sourceChain, scan, fetch, lifi>>

\* the purchasePosition transaction is mined, reverts, or is mined while
\* waiting for its receipt fails: evm-client.ts:79-114, index.ts:238-260
PurchaseSettle(s) ==
    /\ req[s].pc = "p_settle"
    /\ \E outcome \in {"mined", "reverted", "lost"} :
         LET r == req[s]
             tokenId == Cardinality(DOMAIN positions)
         IN /\ positions' =
                 IF outcome = "reverted" THEN positions
                 ELSE LET a == r.purchaseArgs
                      IN hookPurchasePosition(a[1], a[2], a[3], a[4], a[5], a[6])
            /\ req' = [req EXCEPT ![s] =
                         IF settlementRaises(outcome)
                         THEN purchaseFailure([@ EXCEPT !.settleOutcome = outcome])
                         ELSE purchaseSuccess([@ EXCEPT !.settleOutcome = outcome,
                                                        !.minted = tokenId],
                                              parsedTokenId(receiptLogs(tokenId)))]
    /\ UNCHANGED <<oracle, nowMs, ticks, served, sourceChain, scan, fetch, lifi>>

(***************************************************************************)
(* POST /api/redeem (index.ts:265-374).                                    *)
(***************************************************************************)
\* mutant: the error of the settlement call is swallowed
redeemFailureSwallowed(r) ==
    [r EXCEPT !.pc = "done", !.status = 200, !.responses = @ + 1,
              !.result.wethRedeemed = r.redeemAmount]

\* index.ts:370-373
redeemFailure(r) == respond(r, 500, "Redeem failed")

\* index.ts:354-359: the call of evmClient.redeemPosition
redeemSubmit(r, lifiData, bridgeInfo) ==
    [r EXCEPT !.pc = "r_settle", !.lifiData = lifiData, !.bridgeInfo = bridgeInfo,
              !.redeemCalls = @ + 1, !.callAmount = r.redeemAmount]

\* mutant: the quote is asked for all that remains of the position
quoteRequestForRemaining(r) ==
    <<sourceChain, r.position.targetChain, r.position.remainingWethAmount, r.body.user>>

\* index.ts:334-340: the arguments of lifiClient.getQuote (source chain,
\* destination chain, amount, recipient)
quoteRequest(r) ==
    <<sourceChain, r.position.targetChain, r.redeemAmount, r.body.user>>

\* index.ts:342-348
bridgeInfoOf(quote) ==
    [type |-> "bridge", tool |-> quote.bridgeTool,
     estimatedReceive |-> toString(quote.estimatedReceive),
     minReceive |-> toString(quote.minReceive)]

\* mutant: a redeem whose quote failed is settled without a bridge
quoteFailedFallsBackToDirect(r) ==
    redeemSubmit([r EXCEPT !.collaboratorError = "quote"], EmptyCalldata, DirectBridge)

\* lifi-client.ts:123-128 throws out of getQuote, index.ts:334, 370-373
\* answers for it
quoteFailed(r) == redeemFailure([r EXCEPT !.collaboratorError = "quote"])

\* index.ts:327-349: direct when the chains are the same, else a LiFi quote
redeemRoute(r) ==
    IF isSameChain(sourceChain, r.position.targetChain)
    THEN redeemSubmit(r, EmptyCalldata, DirectBridge)
    ELSE LET asked == [r EXCEPT !.quoteCalls = @ + 1, !.quoteArgs = quoteRequest(r)]
         IN IF quoteUnsupported(asked.quoteArgs[1], asked.quoteArgs[2])
            THEN respond(asked, 500, "Unsupported chain")
            ELSE [asked EXCEPT !.pc = "r_quote"]

\* index.ts:313-325
redeemVerify(r) ==
    LET b == r.body
        checked == [r EXCEPT !.sigChecks = @ + 1, !.sigAmount = r.redeemAmount]
    IN IF verifierThrows(b.timestamp)
       THEN redeemFailure([checked EXCEPT !.sigRaised = TRUE])
       ELSE IF ~verifyRedeemSignature(b.user, parseInt(b.tokenId), r.redeemAmount,
                                 BigInt(b.timestamp), b.userSignature)
       THEN respond(checked, 403, "Invalid user signature")
       ELSE redeemRoute(checked)

\* index.ts:300-311
redeemResolve(r) ==
    LET resolved == [r EXCEPT !.redeemAmount =
                                 resolveRedeemAmount(r.body.wethAmount, r.position)]
    IN IF insufficientRemaining(resolved.redeemAmount, r.position)
       THEN respond(resolved, 400, "Insufficient remaining amount")
       ELSE redeemVerify(resolved)

\* index.ts:283-298, with the position getPosition returned
redeemAfterPosition(r, position) ==
    LET read == [r EXCEPT !.position = position]
    IN IF notPositionOwner(position, r.body.user)
       THEN respond(read, 403, "Not position owner")
       ELSE LET timed == [read EXCEPT !.now = nowMs]
            IN IF positionExpired(position, nowMs)
               THEN respond(timed, 400, "Position expired, use claimExpired instead")
               ELSE redeemResolve(timed)

\* mutant: the response reports the amount field of the body
redeemSuccessEchoingBody(r) ==
    [r EXCEPT !.pc = "done", !.status = 200, !.responses = @ + 1,
              !.result.wethRedeemed = BigInt(r.body.wethAmount),
              !.result.targetChain = r.position.targetChain,
              !.result.bridge = r.bridgeInfo]

\* index.ts:363-369
redeemSuccess(r) ==
    [r EXCEPT !.pc = "done", !.status = 200, !.responses = @ + 1,
              !.result.wethRedeemed = r.redeemAmount,
              !.result.targetChain = r.position.targetChain,
              !.result.bridge = r.bridgeInfo]

\* mutant: the error of a failed lookup reaches the handler
positionNotFoundRaised(r) == redeemFailure(r)

\* evm-client.ts:157-159 returns null, index.ts:283-286 answers for it
positionNotFound(r) == respond(r, 400, "Position not found")

\* the request arrives: index.ts:267-282
redeemArrives(s, bodies) ==
    /\ req[s].pc = "idle"
    /\ served < MaxRequests
    /\ \E body \in bodies :
         LET r == [IdleReq EXCEPT !.kind = "redeem", !.body = body,
                                  !.prior = req[s].prior]
         IN req' = [req EXCEPT ![s] =
                      IF missingRedeemFields(body)
                      THEN respond(r, 400, "Missing required fields")
                      ELSE [r EXCEPT !.pc = "r_owner"]]
    /\ served' = served + 1
    /\ UNCHANGED <<positions, oracle, nowMs, ticks, sourceChain, scan, fetch, lifi>>

RedeemReceive(s) == redeemArrives(s, RedeemBodies)

\* getPosition's ownerOf answers or throws: evm-client.ts:142-144, 157-159
RedeemOwnerOf(s) ==
    /\ req[s].pc = "r_owner"
    /\ \E answered \in BOOLEAN :
         LET tokenId == parseInt(req[s].body.tokenId)
         IN req' = [req EXCEPT ![s] =
                      IF answered /\ tokenExists(tokenId)
                      THEN [@ EXCEPT !.pc = "r_detail", !.owner = positions[tokenId].owner]
                      ELSE positionNotFound(
                             [@ EXCEPT !.ownerOfFailed = TRUE,
                                       !.collaboratorError = IF answered THEN @ ELSE "ownership"])]
    /\ UNCHANGED <<positions, oracle, nowMs, ticks, served, sourceChain, scan, fetch, lifi>>

\* evm-client.ts:147-156: the position getPosition assembles from the owner
\* ownerOf returned and the detail read
getPosition(tokenId, owner) ==
    [tokenId |-> tokenId, wethAmount |-> positions[tokenId].wethAmount,
     remainingWethAmount |-> positions[tokenId].remainingWethAmount,
     lockedGasPriceWei |-> positions[tokenId].lockedGasPriceWei,
     purchaseTimestamp |-> positions[tokenId].purchaseTimestamp,
     expiry |-> positions[tokenId].expiry,
     targetChain |-> positions[tokenId].targetChain,
     owner |-> owner]

\* mutant: a redeem waits with its read of the position while another
\* request has a quote or a settlement call under way
RedeemDetailSerialized(s) ==
    /\ req[s].pc = "r_detail"
    /\ \A o \in DOMAIN req \ {s} : req[o].pc \notin {"r_quote", "r_settle"}
    /\ \E answered \in BOOLEAN :
         req' = [req EXCEPT ![s] =
                   IF answered
                   THEN redeemAfterPosition(@, getPosition(parseInt(@.body.tokenId), @.owner))
                   ELSE positionNotFound([@ EXCEPT !.detailFailed = TRUE,
                                                   !.collaboratorError = "detail"])]
    /\ UNCHANGED <<positions, oracle, nowMs, ticks, served, sourceChain, scan, fetch, lifi>>

\* getPosition's detail read answers or throws, and the handler runs on to
\* its next await: evm-client.ts:145-159, index.ts:283-359
RedeemDetail(s) ==
    /\ req[s].pc = "r_detail"
    /\ \E answered \in BOOLEAN :
         req' = [req EXCEPT ![s] =
                   IF answered
                   THEN redeemAfterPosition(@, getPosition(parseInt(@.body.tokenId), @.owner))
                   ELSE positionNotFound([@ EXCEPT !.detailFailed = TRUE,
                                                   !.collaboratorError = "detail"])]
    /\ UNCHANGED <<positions, oracle, nowMs, ticks, served, sourceChain, scan, fetch, lifi>>

\* the LiFi quote answers or fails: lifi-client.ts:123-139, index.ts:334-359
RedeemQuote(s) ==
    /\ req[s].pc = "r_quote"
    /\ \E answered \in BOOLEAN :
         LET a == req[s].quoteArgs
         IN IF answered
            THEN \E quote \in lifiQuotes(a[1], a[2], a[3], a[4]) :
                   req' = [req EXCEPT ![s] =
                             redeemSubmit([@ EXCEPT !.quote = quote],
                                          quote.calldata, bridgeInfoOf(quote))]
            ELSE req' = [req EXCEPT ![s] = quoteFailed(@)]
    /\ UNCHANGED <<positions, oracle, nowMs, ticks, served, sourceChain, scan, fetch, lifi>>

\* the redeemPosition transaction is mined, reverts, or is mined while
\* waiting for its receipt fails: evm-client.ts:123-137, index.ts:354-373
RedeemSettle(s) ==
    /\ req[s].pc = "r_settle"
    /\ \E outcome \in {"mined", "reverted", "lost"} :
         LET r == req[s]
             tokenId == parseInt(r.body.tokenId)
             effect == IF hookRedeemReverts(tokenId, r.callAmount) THEN "reverted" ELSE outcome
         IN /\ positions' =
                 IF effect = "reverted" THEN positions
                 ELSE hookRedeemPosition(tokenId, r.callAmount)
            /\ req' = [req EXCEPT ![s] =
                         IF settlementRaises(effect)
                         THEN redeemFailure([@ EXCEPT !.settleOutcome = effect])
                         ELSE redeemSuccess([@ EXCEPT !.settleOutcome = effect])]
    /\ UNCHANGED <<oracle, nowMs, ticks, served, sourceChain, scan, fetch, lifi>>

(***************************************************************************)
(* The environment and the specification.                                  *)
(***************************************************************************)
\* the response was sent; the slot takes the next request
Finish(s) ==
    /\ req[s].pc = "done"
    /\ req' = [req EXCEPT ![s] = IdleReq]
    /\ UNCHANGED <<positions, oracle, nowMs, ticks, served, sourceChain, scan, fetch, lifi>>

\* time passes
Tick ==
    /\ ticks < MaxTicks
    /\ \E d \in TickSteps : nowMs' = nowMs + d
    /\ ticks' = ticks + 1
    /\ UNCHANGED <<req, positions, oracle, served, sourceChain, scan, fetch, lifi>>

Init ==
    /\ req = [s \in Slots |-> IdleReq]
    /\ \E setup \in ChainSetups :
         /\ sourceChain = setup[1]
         /\ positions = [t \in {0} |->
                           [wethAmount |-> MaxAmount, remainingWethAmount |-> MaxAmount,
                            lockedGasPriceWei |-> 5, purchaseTimestamp |-> StartSec - 1,
                            expiry |-> StartSec, targetChain |-> setup[2],
                            owner |-> OwnerAddr]]
    /\ \E age \in PriceAges :
         oracle = [priceWei |-> 7, timestampMs |-> StartMs - age]
    /\ nowMs = StartMs
    /\ ticks = 0
    /\ served = 0
    /\ scan = IdleScan
    /\ fetch = IdleFetch
    /\ lifi = IdleLifi

Next ==
    \/ Tick
    \/ \E s \in Slots :
         \/ PurchaseReceive(s)
         \/ PurchaseChainSupported(s)
         \/ PurchasePrice(s)
         \/ PurchaseSettle(s)
         \/ RedeemReceive(s)
         \/ RedeemOwnerOf(s)
         \/ RedeemDetail(s)
         \/ RedeemQuote(s)
         \/ RedeemSettle(s)
         \/ Finish(s)

Spec == Init /\ [][Next]_vars

\* the awaited calls of the two handlers: each of them answers or fails
HandlerStep ==
    \E s \in Slots :
        \/ PurchaseChainSupported(s)
        \/ PurchasePrice(s)
        \/ PurchaseSettle(s)
        \/ RedeemOwnerOf(s)
        \/ RedeemDetail(s)
        \/ RedeemQuote(s)
        \/ RedeemSettle(s)

\* a source chain the bridge client knows, a fresh price
InitAnswered ==
    /\ Init
    /\ sourceChain = "ethereum"
    /\ oracle.timestampMs = StartMs

\* the handlers when no collaborator call stays pending for ever
SpecAnswered == InitAnswered /\ [][Next]_vars /\ WF_vars(HandlerStep)

(***************************************************************************)
(* Two redeem requests in flight at once, both by the owner of the first   *)
(* position and both validly signed.                                       *)
(***************************************************************************)
ConcurrentSlots == {1, 2}

ConcurrentRedeemBodies ==
    LET u == <<"a", "b">>
    IN UNION { { RedeemBody(u, JNum(0), w,
                            Signed(u, RedeemMessage(u, 0, a, 1)), IntentTimestamp) :
                   a \in SignedAmounts(w) \cap 1..MaxAmount } :
               w \in {JMax} \cup {JStr(n) : n \in 1..MaxAmount} }

ConcurrentRedeemReceive(s) == redeemArrives(s, ConcurrentRedeemBodies)

InitConcurrent ==
    /\ req = [s \in ConcurrentSlots |-> IdleReq]
    /\ \E setup \in ChainSetups :
         /\ sourceChain = setup[1]
         /\ positions = [t \in {0} |->
                           [wethAmount |-> MaxAmount, remainingWethAmount |-> MaxAmount,
                            lockedGasPriceWei |-> 5, purchaseTimestamp |-> StartSec - 1,
                            expiry |-> StartSec, targetChain |-> setup[2],
                            owner |-> OwnerAddr]]
    /\ oracle = [priceWei |-> 7, timestampMs |-> StartMs]
    /\ nowMs = StartMs
    /\ ticks = 0
    /\ served = 0
    /\ scan = IdleScan
    /\ fetch = IdleFetch
    /\ lifi = IdleLifi

NextConcurrent ==
    \/ Tick
    \/ \E s \in ConcurrentSlots :
         \/ ConcurrentRedeemReceive(s)
         \/ RedeemOwnerOf(s)
         \/ RedeemDetail(s)
         \/ RedeemQuote(s)
         \/ RedeemSettle(s)

SpecConcurrent == InitConcurrent /\ [][NextConcurrent]_vars

(***************************************************************************)
(* EvmHookClient.getUserPositions (evm-client.ts:166-208): the balance     *)
(* read, then batches of ownerOf calls issued at once and awaited          *)
(* together, and a getPosition for every token whose owner is the user.    *)
(***************************************************************************)
\* the other holder of tokens
OtherAddr == <<"C", "d">>
\* the user of the scan, as the route parameter writes it
ScanUsers == {<<"a", "b">>}
\* maxScanId: nothing, a last batch cut short, every token id
ScanLimits == {0, batchSize + 1, MaxTokenId + 1}

Min(a, b) == IF a < b THEN a ELSE b

\* balanceOf(user) of the hook contract
hookBalanceOf(user) ==
    Cardinality({t \in DOMAIN positions :
                    toLowerCase(positions[t].owner) = toLowerCase(user)})

\* mutant: getUserPositions has no catch of its own
scanFailedRaising(sc) == [sc EXCEPT !.pc = "raised", !.balanceFailed = TRUE]

\* evm-client.ts:204-207: the catch of getUserPositions returns []
scanFailed(sc) ==
    [sc EXCEPT !.pc = "returned", !.result = <<>>, !.balanceFailed = TRUE]

\* return positions / return []
scanReturn(sc, list) == [sc EXCEPT !.pc = "returned", !.result = list]

\* mutant: a batch takes one token id more than batchSize
issueBatchOneMore(sc, i) ==
    LET limit == Min(i + batchSize + 1, sc.maxScanId)
    IN [sc EXCEPT !.pc = "batch", !.i = i, !.limit = limit,
                  !.pending = i..(limit - 1), !.results = <<>>,
                  !.checked = @ \cup (i..(limit - 1)), !.batches = @ + 1,
                  !.foundAtIssue = Len(sc.found)]

\* evm-client.ts:177-188: the ownerOf calls of one batch, issued at once
issueBatch(sc, i) ==
    LET limit == Min(i + batchSize, sc.maxScanId)
    IN [sc EXCEPT !.pc = "batch", !.i = i, !.limit = limit,
                  !.pending = i..(limit - 1), !.results = <<>>,
                  !.checked = @ \cup (i..(limit - 1)), !.batches = @ + 1,
                  !.foundAtIssue = Len(sc.found)]

\* mutant: the loop test lets i reach maxScanId
scanNextBatchThrough(sc, i) ==
    IF i <= sc.maxScanId THEN issueBatch(sc, i) ELSE scanReturn(sc, sc.found)

\* evm-client.ts:176: for (let i = ...; i < maxScanId; i += batchSize)
scanNextBatch(sc, i) ==
    IF i < sc.maxScanId THEN issueBatch(sc, i) ELSE scanReturn(sc, sc.found)

\* mutant: the scan never stops before maxScanId
foundAllNever(sc) == FALSE

\* evm-client.ts:197  BigInt(positions.length) >= balance
foundAll(sc) == Len(sc.found) >= sc.balance

\* mutant: a token counts as the user's when its ownership check answered
isUsersTokenAnyOwner(sc, k) == sc.results[k] # Undefined

\* evm-client.ts:191  res && res.owner === userLower
isUsersToken(sc, k) ==
    sc.results[k] # Undefined /\ sc.results[k] = toLowerCase(sc.user)

\* evm-client.ts:190-201: the loop over the results of a batch from the
\* result of token k on, up to its next await or return
RECURSIVE scanResults(_, _)
scanResults(sc, k) ==
    IF k >= sc.limit
    THEN scanNextBatch(sc, sc.i + batchSize)
    ELSE IF isUsersToken(sc, k)
    THEN [sc EXCEPT !.pc = "pos_owner", !.cursor = k]
    ELSE IF foundAll(sc)
    THEN scanReturn(sc, sc.found)
    ELSE scanResults(sc, k + 1)

\* evm-client.ts:192-199: getPosition answered pos (NoPosition for null)
scanAfterPosition(sc, pos) ==
    LET pushed == IF pos = NoPosition THEN sc ELSE [sc EXCEPT !.found = Append(@, pos)]
    IN IF foundAll(pushed)
       THEN scanReturn(pushed, pushed.found)
       ELSE scanResults(pushed, sc.cursor + 1)

\* mutant: the ownerOf promises carry no catch of their own, so a failed
\* one rejects Promise.all into the catch of getUserPositions
ownerOfSettledRejecting(sc, t, res) ==
    IF res = Undefined
    THEN scanReturn([sc EXCEPT !.pending = {}, !.failed = @ \cup {t}], <<>>)
    ELSE LET settled == [sc EXCEPT !.pending = @ \ {t}, !.results = @ @@ (t :> res)]
         IN IF settled.pending = {}
            THEN scanResults(settled, settled.i)
            ELSE settled

\* evm-client.ts:180-190: the ownerOf of token t settled with res (the
\* owner, or null from its catch); when it was the last one of the batch,
\* Promise.all resolves and the loop over the results runs
ownerOfSettled(sc, t, res) ==
    LET settled == [sc EXCEPT !.pending = @ \ {t}, !.results = @ @@ (t :> res),
                              !.failed = IF res = Undefined THEN @ \cup {t} ELSE @]
    IN IF settled.pending = {}
       THEN scanResults(settled, settled.i)
       ELSE settled

\* GET /api/positions/:user calls getUserPositions(user) (index.ts:124)
ScanStart ==
    /\ scan.pc = "idle"
    /\ scan.scans < MaxScans
    /\ \E user \in ScanUsers, maxScanId \in ScanLimits :
         scan' = [scan EXCEPT !.pc = "balance", !.user = user,
                              !.maxScanId = maxScanId, !.scans = @ + 1]
    /\ UNCHANGED <<req, positions, oracle, nowMs, ticks, served, sourceChain, fetch, lifi>>

\* balanceOf answers or throws: evm-client.ts:168-176, 204-207
ScanBalance ==
    /\ scan.pc = "balance"
    /\ \E answered \in BOOLEAN :
         scan' = IF ~answered
                 THEN scanFailed(scan)
                 ELSE LET read == [scan EXCEPT !.balance = hookBalanceOf(scan.user)]
                      IN IF read.balance = 0
                         THEN scanReturn(read, <<>>)
                         ELSE scanNextBatch(read, 0)
    /\ UNCHANGED <<req, positions, oracle, nowMs, ticks, served, sourceChain, fetch, lifi>>

\* one ownerOf of the batch answers or fails (caught as null); when it was
\* the last one, Promise.all resolves and the loop over the results runs:
\* evm-client.ts:182-201
ScanOwnerOf ==
    /\ scan.pc = "batch"
    /\ \E t \in scan.pending, answered \in BOOLEAN :
         LET ok == answered /\ tokenExists(t)
             res == IF ok THEN toLowerCase(positions[t].owner) ELSE Undefined
             noted == [scan EXCEPT !.checkFailed = @ \/ (tokenExists(t) /\ ~answered)]
         IN scan' = ownerOfSettled(noted, t, res)
    /\ UNCHANGED <<req, positions, oracle, nowMs, ticks, served, sourceChain, fetch, lifi>>

\* the ownerOf of this.getPosition(res.tokenId) answers or throws:
\* evm-client.ts:144, 157-159, 192-199
ScanPositionOwnerOf ==
    /\ scan.pc = "pos_owner"
    /\ \E answered \in BOOLEAN :
         scan' = IF answered /\ tokenExists(scan.cursor)
                 THEN [scan EXCEPT !.pc = "pos_detail",
                                   !.owner = positions[scan.cursor].owner]
                 ELSE scanAfterPosition([scan EXCEPT !.positionFailed = TRUE], NoPosition)
    /\ UNCHANGED <<req, positions, oracle, nowMs, ticks, served, sourceChain, fetch, lifi>>

\* mutant: the detail read of a position uses it up
ScanPositionDetailRedeeming ==
    /\ scan.pc = "pos_detail"
    /\ \E answered \in BOOLEAN :
         scan' = IF answered
                 THEN scanAfterPosition(scan, getPosition(scan.cursor, scan.owner))
                 ELSE scanAfterPosition([scan EXCEPT !.positionFailed = TRUE], NoPosition)
    /\ positions' = [positions EXCEPT ![scan.cursor].remainingWethAmount = 0]
    /\ UNCHANGED <<req, oracle, nowMs, ticks, served, sourceChain, fetch, lifi>>

\* the detail read of this.getPosition(res.tokenId) answers or throws:
\* evm-client.ts:145-159, 192-199
ScanPositionDetail ==
    /\ scan.pc = "pos_detail"
    /\ \E answered \in BOOLEAN :
         scan' = IF answered
                 THEN scanAfterPosition(scan, getPosition(scan.cursor, scan.owner))
                 ELSE scanAfterPosition([scan EXCEPT !.positionFailed = TRUE], NoPosition)
    /\ UNCHANGED <<req, positions, oracle, nowMs, ticks, served, sourceChain, fetch, lifi>>

\* a token changes hands on the chain
Transfer ==
    /\ scan.transfers < MaxTransfers
    /\ \E t \in DOMAIN positions :
         positions' = [positions EXCEPT ![t].owner =
                          IF @ = OwnerAddr THEN OtherAddr ELSE OwnerAddr]
    /\ scan' = [scan EXCEPT !.transfers = @ + 1,
                            !.moved = @ \/ scan.pc # "idle"]
    /\ UNCHANGED <<req, oracle, nowMs, ticks, served, sourceChain, fetch, lifi>>

\* a position as the hook contract holds it for a token of the given owner
PositionOf(owner) ==
    [wethAmount |-> MaxAmount, remainingWethAmount |-> MaxAmount,
     lockedGasPriceWei |-> 5, purchaseTimestamp |-> StartSec - 1,
     expiry |-> StartSec, targetChain |-> "arbitrum", owner |-> owner]

\* every set of minted token ids, every token held by the user or by the
\* other holder
InitScan ==
    /\ req = [s \in Slots |-> IdleReq]
    /\ \E ids \in SUBSET (0..MaxTokenId) :
         \E holder \in [ids -> {OwnerAddr, OtherAddr}] :
            positions = [t \in ids |-> PositionOf(holder[t])]
    /\ sourceChain = "sepolia"
    /\ oracle = [priceWei |-> 7, timestampMs |-> StartMs]
    /\ nowMs = StartMs
    /\ ticks = 0
    /\ served = 0
    /\ scan = IdleScan
    /\ fetch = IdleFetch
    /\ lifi = IdleLifi

NextScan ==
    \/ ScanStart
    \/ ScanBalance
    \/ ScanOwnerOf
    \/ ScanPositionOwnerOf
    \/ ScanPositionDetail
    \/ Transfer

SpecScan == InitScan /\ [][NextScan]_vars

\* the calls of a scan to the hook contract, each of which answers or fails
ScanStep ==
    \/ ScanBalance
    \/ ScanOwnerOf
    \/ ScanPositionOwnerOf
    \/ ScanPositionDetail

\* every token id up to MaxTokenId minted, each held by the user or by the
\* other holder
InitScanMinted ==
    /\ InitScan
    /\ DOMAIN positions = 0..MaxTokenId

\* getUserPositions when no call to the hook contract stays pending for ever
SpecScanFair == InitScanMinted /\ [][NextScan]_vars /\ WF_vars(ScanStep)

(***************************************************************************)
(* SuiOracleReader.fetchAllPrices (sui-reader.ts:30-64): the oracle object *)
(* is read for its supported_chains, then fetchChainPrice (69-121) is      *)
(* awaited for one chain after the other.                                  *)
(***************************************************************************)
\* chain names the oracle can list
OracleChains == {"arbitrum", "base", "solana"}

\* sui-reader.ts:108-116: the price read from the table entry of a chain
priceOf(chain) ==
    [chain |-> chain, priceWei |-> oracle.priceWei, timestampMs |-> oracle.timestampMs]

\* sui-reader.ts:59 return prices
fetchReturn(f) == [f EXCEPT !.pc = "returned", !.result = f.prices]

\* sui-reader.ts:48-57: fetchChainPrice answered priceData (NoPrice for
\* null) for the chain at hand; the loop goes on to the next chain
fetchAfterChain(f, priceData, outcome) ==
    LET pushed == [f EXCEPT !.prices = IF priceData = NoPrice THEN @ ELSE Append(@, priceData),
                            !.outcomes = Append(@, outcome),
                            !.k = @ + 1]
    IN IF pushed.k > Len(pushed.supported)
       THEN fetchReturn(pushed)
       ELSE [pushed EXCEPT !.pc = "chain_object"]

\* mutant: a failed lookup of one chain ends the whole call with its error
fetchChainFailedAborts(f) == [f EXCEPT !.pc = "raised", !.outcomes = Append(@, "fail")]

\* sui-reader.ts:117-120: catch (error) { return null }
fetchChainFailed(f) == fetchAfterChain(f, NoPrice, "fail")

\* GET /api/prices calls fetchAllPrices (index.ts:87)
FetchAllPricesStart ==
    /\ fetch.pc \in {"idle", "returned", "raised"}
    /\ fetch.calls < MaxFetches
    /\ fetch' = [IdleFetch EXCEPT !.pc = "object", !.calls = fetch.calls + 1,
                                  !.supported = fetch.supported, !.table = fetch.table]
    /\ UNCHANGED <<req, positions, oracle, nowMs, ticks, served, sourceChain, scan, lifi>>

\* getObject answers with the oracle object, or fails or answers with
\* something that is no move object: sui-reader.ts:32-48, 60-63
FetchAllPricesObject ==
    /\ fetch.pc = "object"
    /\ \E answered \in BOOLEAN :
         fetch' = IF ~answered
                  THEN [fetch EXCEPT !.pc = "raised"]
                  ELSE LET listed == [fetch EXCEPT !.listResolved = TRUE, !.k = 1]
                       IN IF Len(listed.supported) = 0
                          THEN fetchReturn(listed)
                          ELSE [listed EXCEPT !.pc = "chain_object"]
    /\ UNCHANGED <<req, positions, oracle, nowMs, ticks, served, sourceChain, scan, lifi>>

\* fetchChainPrice's getObject answers, or fails, or answers without a
\* prices table: sui-reader.ts:72-87, 117-120
FetchChainObject ==
    /\ fetch.pc = "chain_object"
    /\ \E outcome \in {"ok", "none", "fail"} :
         fetch' = CASE outcome = "ok" -> [fetch EXCEPT !.pc = "chain_field"]
                    [] outcome = "none" -> fetchAfterChain(fetch, NoPrice, "none")
                    [] OTHER -> fetchChainFailed(fetch)
    /\ UNCHANGED <<req, positions, oracle, nowMs, ticks, served, sourceChain, scan, lifi>>

\* fetchChainPrice's getDynamicFieldObject answers with the table entry of
\* the chain, or without content, or fails: sui-reader.ts:91-120
FetchChainField ==
    /\ fetch.pc = "chain_field"
    /\ \E answered \in BOOLEAN :
         LET chain == fetch.supported[fetch.k]
         IN fetch' = IF ~answered
                     THEN fetchChainFailed(fetch)
                     ELSE IF chain \in fetch.table
                     THEN fetchAfterChain(fetch, priceOf(chain), "price")
                     ELSE fetchAfterChain(fetch, NoPrice, "none")
    /\ UNCHANGED <<req, positions, oracle, nowMs, ticks, served, sourceChain, scan, lifi>>

\* sequences of at most n chain names
RECURSIVE ChainLists(_)
ChainLists(n) ==
    IF n = 0 THEN {<<>>}
    ELSE LET shorter == ChainLists(n - 1)
         IN shorter \cup {Append(l, c) : l \in shorter, c \in OracleChains}

\* every supported_chains list, every set of chains with a table entry
InitPrices ==
    /\ req = [s \in Slots |-> IdleReq]
    /\ positions = [t \in {0} |-> PositionOf(OwnerAddr)]
    /\ sourceChain = "sepolia"
    /\ oracle = [priceWei |-> 7, timestampMs |-> StartMs]
    /\ nowMs = StartMs
    /\ ticks = 0
    /\ served = 0
    /\ scan = IdleScan
    /\ \E supported \in ChainLists(MaxChains), table \in SUBSET OracleChains :
         fetch = [IdleFetch EXCEPT !.supported = supported, !.table = table]
    /\ lifi = IdleLifi

NextPrices ==
    \/ FetchAllPricesStart
    \/ FetchAllPricesObject
    \/ FetchChainObject
    \/ FetchChainField

SpecPrices == InitPrices /\ [][NextPrices]_vars

(***************************************************************************)
(* The same handlers, with the intent of a purchase that reached           *)
(* settlement remembered (for the properties only) when its slot takes the *)
(* next request: what a relayer does with an intent it has served before.  *)
(***************************************************************************)
\* the response was sent; the slot takes the next request
FinishRemembered(s) ==
    /\ req[s].pc = "done"
    /\ req' = [req EXCEPT ![s] =
                 [IdleReq EXCEPT !.prior =
                    IF req[s].purchaseCalls > 0
                    THEN [body |-> req[s].body]
                    ELSE NoPrior]]
    /\ UNCHANGED <<positions, oracle, nowMs, ticks, served, sourceChain, scan, fetch, lifi>>

\* a source chain the bridge client knows, a fresh price
InitReplay ==
    /\ req = [s \in Slots |-> IdleReq]
    /\ sourceChain = "ethereum"
    /\ positions = [t \in {0} |-> PositionOf(OwnerAddr)]
    /\ oracle = [priceWei |-> 7, timestampMs |-> StartMs]
    /\ nowMs = StartMs
    /\ ticks = 0
    /\ served = 0
    /\ scan = IdleScan
    /\ fetch = IdleFetch
    /\ lifi = IdleLifi

NextReplay ==
    \/ Tick
    \/ \E s \in Slots :
         \/ PurchaseReceive(s)
         \/ PurchaseChainSupported(s)
         \/ PurchasePrice(s)
         \/ PurchaseSettle(s)
         \/ RedeemReceive(s)
         \/ RedeemOwnerOf(s)
         \/ RedeemDetail(s)
         \/ RedeemQuote(s)
         \/ RedeemSettle(s)
         \/ FinishRemembered(s)

SpecReplay == InitReplay /\ [][NextReplay]_vars

(***************************************************************************)
(* LiFiClient.getQuote (lifi-client.ts:84-139) of a client constructed     *)
(* with config.maxSlippageBps (index.ts:29, 40).                           *)
(***************************************************************************)
\* index.ts:29  the '100' of process.env.MAX_SLIPPAGE_BPS || '100'
DefaultSlippageBps == 100
\* process.env.MAX_SLIPPAGE_BPS: unset, '', a word, or digits
SlippageEnv ==
    {JUndef, [form |-> "empty", n |-> 0], [form |-> "word", n |-> 0],
     JStr(DefaultSlippageBps)} \cup {JStr(n) : n \in 0..MaxSlippageBps}
\* the chain names getQuote is called with
QuoteChains == CHAIN_IDS \cup {"sepolia"}

\* index.ts:29  parseInt(process.env.MAX_SLIPPAGE_BPS || '100')
configMaxSlippageBps(env) ==
    LET text == IF env.form \in {"undef", "empty"} THEN JStr(DefaultSlippageBps) ELSE env
    IN IF text.form = "str" THEN JNum(text.n) ELSE NaN

RECURSIVE gcd(_, _)
gcd(a, b) == IF b = 0 THEN a ELSE gcd(b, a % b)

\* x / d of JS numbers, as a fraction in lowest terms
divide(x, d) ==
    IF x.form = "nan"
    THEN NaNFraction
    ELSE LET g == gcd(x.n, d) IN [num |-> x.n \div g, den |-> d \div g]

\* 0 and NaN are the falsy numbers
falsyNumber(q) == q.num = 0

\* Number.prototype.toString
numberToString(q) == [form |-> "str", num |-> q.num, den |-> q.den]

\* lifi-client.ts:109  slippage: this.maxSlippageBps / 10000
requestSlippage(maxSlippageBps) == divide(maxSlippageBps, 10000)

\* lifi-client.ts:120  slippage: (request.slippage || 0.01).toString()
querySlippage(slippage) ==
    numberToString(IF falsyNumber(slippage) THEN divide(JNum(1), 100) ELSE slippage)

\* lifi-client.ts:84-123: getQuote is called; it throws for a chain without
\* a chain id, else builds the request and sends the query
GetQuote ==
    /\ lifi.pc \in {"idle", "returned", "raised"}
    /\ lifi.calls < MaxQuotes
    /\ \E fromChain \in QuoteChains, toChain \in QuoteChains, amount \in 1..MaxAmount :
         LET called == [lifi EXCEPT !.calls = @ + 1, !.query = NoQuery,
                                    !.slippage = NaNFraction, !.quote = NoQuote]
             slippage == requestSlippage(lifi.maxSlippageBps)
         IN lifi' = IF quoteUnsupported(fromChain, toChain)
                    THEN [called EXCEPT !.pc = "raised"]
                    ELSE [called EXCEPT
                            !.pc = "fetching", !.sent = @ + 1, !.slippage = slippage,
                            !.query = [fromChain |-> fromChain, toChain |-> toChain,
                                       fromAmount |-> toString(amount),
                                       toAddress |-> OwnerAddr,
                                       slippage |-> querySlippage(slippage)]]
    /\ UNCHANGED <<req, positions, oracle, nowMs, ticks, served, sourceChain, scan, fetch>>

\* lifi-client.ts:123-138: the aggregator answers with a quote, or the
\* fetch fails or answers with an error status
GetQuoteResponse ==
    /\ lifi.pc = "fetching"
    /\ \E answered \in BOOLEAN :
         IF answered
         THEN \E quote \in lifiQuotes(lifi.query.fromChain, lifi.query.toChain,
                                      BigInt(lifi.query.fromAmount), lifi.query.toAddress) :
                lifi' = [lifi EXCEPT !.pc = "returned", !.quote = quote]
         ELSE lifi' = [lifi EXCEPT !.pc = "raised"]
    /\ UNCHANGED <<req, positions, oracle, nowMs, ticks, served, sourceChain, scan, fetch>>

\* the client as index.ts:40 constructs it, for every MAX_SLIPPAGE_BPS
InitQuote ==
    /\ req = [s \in Slots |-> IdleReq]
    /\ positions = [t \in {0} |-> PositionOf(OwnerAddr)]
    /\ sourceChain = "sepolia"
    /\ oracle = [priceWei |-> 7, timestampMs |-> StartMs]
    /\ nowMs = StartMs
    /\ ticks = 0
    /\ served = 0
    /\ scan = IdleScan
    /\ fetch = IdleFetch
    /\ \E env \in SlippageEnv :
         lifi = [IdleLifi EXCEPT !.env = env,
                                 !.maxSlippageBps = configMaxSlippageBps(env)]

NextQuote ==
    \/ GetQuote
    \/ GetQuoteResponse

SpecQuote == InitQuote /\ [][NextQuote]_vars

(***************************************************************************)
(* The read operations, one of them per behaviour: getUserPositions with   *)
(* its getPosition calls, fetchAllPrices with its fetchChainPrice calls,   *)
(* or getQuote, while tokens change hands on the chain.                    *)
(***************************************************************************)
InitReads ==
    /\ req = [s \in Slots |-> IdleReq]
    /\ positions = [t \in 0..MaxTokenId |->
                       PositionOf(IF t % 2 = 0 THEN OwnerAddr ELSE OtherAddr)]
    /\ sourceChain = "sepolia"
    /\ oracle = [priceWei |-> 7, timestampMs |-> StartMs]
    /\ nowMs = StartMs
    /\ ticks = 0
    /\ served = 0
    /\ scan = IdleScan
    /\ fetch = [IdleFetch EXCEPT !.supported = <<"arbitrum", "solana">>,
                                 !.table = {"arbitrum"}]
    /\ lifi = IdleLifi

NextReads ==
    \/ (fetch.calls = 0 /\ lifi.calls = 0 /\ NextScan)
    \/ (scan.scans = 0 /\ lifi.calls = 0 /\ NextPrices)
    \/ (scan.scans = 0 /\ fetch.calls = 0 /\ NextQuote)

SpecReads == InitReads /\ [][NextReads]_vars

(***************************************************************************)
(* Vocabulary of the properties.  Addresses are compared letter by letter, *)
(* a letter being the same as its other case.                              *)
(***************************************************************************)
LetterCases == {<<"a", "A">>, <<"b", "B">>, <<"c", "C">>, <<"d", "D">>,
                <<"e", "E">>, <<"f", "F">>}

SameLetter(x, y) == x = y \/ <<x, y>> \in LetterCases \/ <<y, x>> \in LetterCases

SameAddress(a, b) ==
    /\ Len(a) = Len(b)
    /\ \A i \in 1..Len(a) : SameLetter(a[i], b[i])

PurchaseRequests == {req[s] : s \in {x \in DOMAIN req : req[x].kind = "purchase"}}
RedeemRequests == {req[s] : s \in {x \in DOMAIN req : req[x].kind = "redeem"}}

\* the signature of purchase request r is by the user's key over r's fields
PurchaseSignatureValid(r) ==
    LET b == r.body
    IN /\ b.userSignature.form = "sig"
       /\ SameAddress(b.userSignature.signer, b.user)
       /\ Len(b.userSignature.msg) = 6
       /\ b.userSignature.msg[1] = "Purchase"
       /\ SameAddress(b.userSignature.msg[2], b.user)
       /\ b.userSignature.msg[3] = b.usdcAmount.n
       /\ b.userSignature.msg[4] = b.targetChain
       /\ b.userSignature.msg[5] = b.expiryDays.n
       /\ b.userSignature.msg[6] = b.timestamp.n

\* the signature of redeem request r is by the user's key over r's user,
\* token and timestamp and the given amount
RedeemSignatureValid(r, amount) ==
    LET b == r.body
    IN /\ b.userSignature.form = "sig"
       /\ SameAddress(b.userSignature.signer, b.user)
       /\ Len(b.userSignature.msg) = 5
       /\ b.userSignature.msg[1] = "Redeem"
       /\ SameAddress(b.userSignature.msg[2], b.user)
       /\ b.userSignature.msg[3] = b.tokenId.n
       /\ b.userSignature.msg[4] = amount
       /\ b.userSignature.msg[5] = b.timestamp.n

PurchaseFieldsPresent(b) ==
    /\ b.user # <<>>
    /\ b.usdcAmount.form # "undef"
    /\ b.targetChain # ""
    /\ b.expiryDays.form # "undef"
    /\ b.userSignature.form # "undef"
    /\ b.timestamp.form # "undef"

RedeemFieldsPresent(b) ==
    /\ b.user # <<>>
    /\ b.tokenId.form # "undef"
    /\ b.wethAmount.form # "undef"
    /\ b.userSignature.form # "undef"
    /\ b.timestamp.form # "undef"

\* the failure responses of the handlers' own checks
ValidationFailed(r) == r.pc = "done" /\ r.status \in {400, 403}

(***************************************************************************)
(* C1: a purchase request of which one of the preconditions 1-5 fails (a   *)
(* required field missing, the target chain unsupported, no price for the  *)
(* chain, the price stale, the signature invalid) never invokes the        *)
(* settlement collaborator's purchase operation: a request that invoked it *)
(* satisfies all five, and one answered with a failure of a check did not  *)
(* invoke it.                                                              *)
(***************************************************************************)
C1_PurchaseGated ==
    \A r \in PurchaseRequests :
        /\ r.purchaseCalls > 0 =>
             /\ PurchaseFieldsPresent(r.body)
             /\ r.body.targetChain \in HookChains
             /\ r.gasPrice # NoPrice
             /\ r.gasPrice.chain = r.body.targetChain
             /\ r.now - r.gasPrice.timestampMs <= 300000
             /\ PurchaseSignatureValid(r)
        /\ ValidationFailed(r) => r.purchaseCalls = 0

\* a purchase with a fresh price and a signature by another key was refused
\* without a purchase call
C1_Witness ==
    \E r \in PurchaseRequests :
        /\ r.pc = "done" /\ r.status = 403 /\ r.error = "Invalid user signature"
        /\ r.gasPrice # NoPrice
        /\ r.body.userSignature.form = "sig"
        /\ ~SameAddress(r.body.userSignature.signer, r.body.user)
        /\ r.purchaseCalls = 0

(***************************************************************************)
(* C2: a redeem request of which one of the steps 1-6 fails (a required    *)
(* field missing, the position not found, the caller not the owner, the    *)
(* position expired, i.e. now >= expiry, the amount above remaining, the   *)
(* signature invalid) never invokes the settlement collaborator's redeem   *)
(* operation.                                                              *)
(***************************************************************************)
C2_RedeemGated ==
    \A r \in RedeemRequests :
        /\ r.redeemCalls > 0 =>
             /\ RedeemFieldsPresent(r.body)
             /\ r.position # NoPosition
             /\ SameAddress(r.position.owner, r.body.user)
             /\ r.now \div 1000 < r.position.expiry
             /\ r.redeemAmount <= r.position.remainingWethAmount
             /\ RedeemSignatureValid(r, r.redeemAmount)
        /\ ValidationFailed(r) => r.redeemCalls = 0

\* what the handler does guarantee: C2 with step 4 as the code takes it
\* (a position counts as expired from the second after its expiry on)
C2_RedeemGatedAfterExpirySecond ==
    \A r \in RedeemRequests :
        /\ r.redeemCalls > 0 =>
             /\ RedeemFieldsPresent(r.body)
             /\ r.position # NoPosition
             /\ SameAddress(r.position.owner, r.body.user)
             /\ r.now \div 1000 <= r.position.expiry
             /\ r.redeemAmount <= r.position.remainingWethAmount
             /\ RedeemSignatureValid(r, r.redeemAmount)
        /\ ValidationFailed(r) => r.redeemCalls = 0

(***************************************************************************)
(* C3: a purchase or redeem request issues at most one settlement-mutating *)
(* call over its whole life, and a request that reports success issued     *)
(* exactly one, of its own kind.                                           *)
(***************************************************************************)
C3_OneSettlementCall ==
    \A s \in DOMAIN req :
        LET r == req[s]
        IN /\ r.purchaseCalls + r.redeemCalls <= 1
           /\ r.status = 200 =>
                /\ r.purchaseCalls + r.redeemCalls = 1
                /\ r.kind = "purchase" => r.purchaseCalls = 1
                /\ r.kind = "redeem" => r.redeemCalls = 1

\* a request whose settlement call failed ended with one call and no success
C3_Witness ==
    \E s \in DOMAIN req :
        /\ req[s].pc = "done" /\ req[s].status = 500
        /\ req[s].purchaseCalls + req[s].redeemCalls = 1

(***************************************************************************)
(* C4: under every interleaving of concurrent redeem requests against the  *)
(* same position, the position keeps 0 <= remaining <= total, and a        *)
(* settlement call that would push remaining below zero changes nothing    *)
(* and ends its request with an error response, never a success.           *)
(***************************************************************************)
RemainingWithinTotal ==
    \A t \in DOMAIN positions :
        /\ 0 <= positions[t].remainingWethAmount
        /\ positions[t].remainingWethAmount <= positions[t].wethAmount

OverdrawIsRejected ==
    \A s \in DOMAIN req :
        ( /\ req[s].pc = "r_settle"
          /\ req'[s].pc = "done"
          /\ req[s].callAmount > positions[req[s].body.tokenId.n].remainingWethAmount )
        => /\ req'[s].status = 500
           /\ positions' = positions

C4_RacingRedeemsKeepRemainingInRange ==
    /\ []RemainingWithinTotal
    /\ [][OverdrawIsRejected]_vars

\* two redeems read the same remaining, both passed the balance check and
\* both called redeemPosition; the first succeeded and the second, which
\* asked for more than was left by then, ended with an error
C4_Witness ==
    \E s1, s2 \in DOMAIN req :
        /\ s1 # s2
        /\ req[s1].status = 200 /\ req[s1].redeemCalls = 1
        /\ req[s2].status = 500 /\ req[s2].redeemCalls = 1
        /\ req[s2].position.remainingWethAmount = req[s1].position.remainingWethAmount
        /\ req[s2].callAmount <= req[s2].position.remainingWethAmount
        /\ req[s2].callAmount > positions[0].remainingWethAmount
        /\ RemainingWithinTotal

(***************************************************************************)
(* C5: the remaining amount of a position never increases, and the step in *)
(* which a redeem request reports success with wethRedeemed = x lowers the *)
(* remaining amount of its position by exactly x.                          *)
(***************************************************************************)
RemainingStep ==
    /\ \A t \in DOMAIN positions :
         positions'[t].remainingWethAmount <= positions[t].remainingWethAmount
    /\ \A s \in DOMAIN req :
         (req[s].pc = "r_settle" /\ req'[s].status = 200) =>
             positions'[req[s].body.tokenId.n].remainingWethAmount =
                 positions[req[s].body.tokenId.n].remainingWethAmount
                     - req'[s].result.wethRedeemed

C5_RemainingOnlyDecreases == [][RemainingStep]_vars

\* a redeem of part of the position reported success and the position holds
\* that much less than the request had read
C5_Witness ==
    \E r \in RedeemRequests :
        /\ r.status = 200
        /\ r.result.wethRedeemed > 0
        /\ r.result.wethRedeemed < r.position.remainingWethAmount
        /\ positions[r.body.tokenId.n].remainingWethAmount =
               r.position.remainingWethAmount - r.result.wethRedeemed

(***************************************************************************)
(* C6: the staleness gate of a purchase rejects the price (stale-price     *)
(* failure, no purchase call) if and only if now - price.timestampMs >     *)
(* 300000 when it is checked; at exactly 300000 ms the price is not stale  *)
(* and the workflow goes on to the signature check.  A price of 6 minutes  *)
(* ago is rejected.                                                        *)
(***************************************************************************)
StaleRejected(r) ==
    /\ r.pc = "done" /\ r.status = 400 /\ r.error = "Gas price is stale"
    /\ r.purchaseCalls = 0 /\ r.sigChecks = 0

C6_StalenessGate ==
    \A r \in PurchaseRequests :
        r.gasPrice # NoPrice =>
            /\ StaleRejected(r) <=> (r.now - r.gasPrice.timestampMs > 300000)
            /\ r.now - r.gasPrice.timestampMs <= 300000 => r.sigChecks = 1
            /\ r.now - r.gasPrice.timestampMs >= 360000 => StaleRejected(r)

\* a price exactly 300000 ms old passed the gate and reached the purchase call
C6_Witness ==
    \E r \in PurchaseRequests :
        /\ r.gasPrice # NoPrice
        /\ r.now - r.gasPrice.timestampMs = 300000
        /\ r.sigChecks = 1
        /\ r.purchaseCalls = 1

(***************************************************************************)
(* C7: a redeem that passed the ownership and expiry steps and whose       *)
(* literal requested amount exceeds the position's remaining amount fails  *)
(* with the insufficient-balance failure, and neither the signature        *)
(* verifier nor the bridge nor the settlement collaborator is invoked.     *)
(***************************************************************************)
C7_InsufficientBeforeSignature ==
    \A r \in RedeemRequests :
        ( /\ r.position # NoPosition
          /\ r.body.wethAmount.form = "str"
          /\ r.body.wethAmount.n > r.position.remainingWethAmount )
        => /\ r.sigChecks = 0 /\ r.quoteCalls = 0 /\ r.redeemCalls = 0
           /\ r.pc = "done" /\ r.status # 200
           /\ r.error \notin {"Not position owner",
                              "Position expired, use claimExpired instead"}
                => r.status = 400 /\ r.error = "Insufficient remaining amount"

\* the owner asked for remaining + 1 with a signature over exactly that
\* request, and was refused for the amount, the signature never looked at
C7_Witness ==
    \E r \in RedeemRequests :
        /\ r.position # NoPosition
        /\ r.body.wethAmount.form = "str"
        /\ r.body.wethAmount.n = r.position.remainingWethAmount + 1
        /\ RedeemSignatureValid(r, r.body.wethAmount.n)
        /\ r.status = 400 /\ r.error = "Insufficient remaining amount"
        /\ r.sigChecks = 0 /\ r.redeemCalls = 0

(***************************************************************************)
(* C8: a redeem requesting "max" on a position with remaining = r behaves  *)
(* as the same request with the explicit amount r: from the position read  *)
(* on the two end in the same state but for the body's amount field, and   *)
(* r is the amount checked against the signature, sent in the settlement   *)
(* call and reported as wethRedeemed.                                      *)
(***************************************************************************)
C8_MaxIsRemaining ==
    \A s \in DOMAIN req :
        LET r == req[s]
        IN (r.kind = "redeem" /\ r.body.wethAmount = JMax) =>
             /\ (r.pc = "r_detail" /\ tokenExists(r.body.tokenId.n)) =>
                  LET position == getPosition(r.body.tokenId.n, r.owner)
                      explicit == [r EXCEPT !.body.wethAmount =
                                                JStr(position.remainingWethAmount)]
                  IN [redeemAfterPosition(r, position) EXCEPT !.body = <<>>]
                       = [redeemAfterPosition(explicit, position) EXCEPT !.body = <<>>]
             /\ r.sigChecks > 0 => r.sigAmount = r.position.remainingWethAmount
             /\ r.redeemCalls > 0 => r.callAmount = r.position.remainingWethAmount
             /\ r.status = 200 =>
                  r.result.wethRedeemed = r.position.remainingWethAmount

\* a "max" redeem of a position that was partly redeemed before succeeded
\* for exactly what remained
C8_Witness ==
    \E r \in RedeemRequests :
        /\ r.body.wethAmount = JMax
        /\ r.status = 200
        /\ r.position.remainingWethAmount > 0
        /\ r.position.remainingWethAmount < r.position.wethAmount
        /\ r.result.wethRedeemed = r.position.remainingWethAmount
        /\ r.sigAmount = r.position.remainingWethAmount

(***************************************************************************)
(* C9: a redeem passes the expiry step only when now < position.expiry;    *)
(* whenever now >= expiry (now == expiry included) it fails with the       *)
(* position-expired failure and no redeem settlement call is issued.       *)
(* (r.now is Date.now() as the expiry step read it, 0 before that step.)   *)
(***************************************************************************)
ExpiredRejected(r) ==
    /\ r.pc = "done" /\ r.status = 400
    /\ r.error = "Position expired, use claimExpired instead"
    /\ r.redeemCalls = 0

C9_ExpiryGate ==
    \A r \in RedeemRequests :
        r.now # 0 => (ExpiredRejected(r) <=> r.now \div 1000 >= r.position.expiry)

\* what the handler does: it rejects from the second after expiry on
C9_ExpiryGateAfterExpirySecond ==
    \A r \in RedeemRequests :
        r.now # 0 => (ExpiredRejected(r) <=> r.now \div 1000 > r.position.expiry)

(***************************************************************************)
(* C10: a redeem issues a settlement call only if the requesting user is   *)
(* the position's owner as read in that request, letter case ignored: a    *)
(* user differing from the owner fails with the not-owner failure, and a   *)
(* user differing from the owner only in letter case is not refused.       *)
(***************************************************************************)
NotOwnerRejected(r) ==
    /\ r.pc = "done" /\ r.status = 403 /\ r.error = "Not position owner"
    /\ r.redeemCalls = 0

C10_OwnerOnly ==
    \A r \in RedeemRequests :
        /\ r.redeemCalls > 0 => SameAddress(r.body.user, r.owner)
        /\ r.position # NoPosition =>
             /\ r.position.owner = r.owner
             /\ NotOwnerRejected(r) <=> ~SameAddress(r.body.user, r.owner)

\* a user who wrote the owner's address in another letter case got a
\* settlement call issued
C10_Witness ==
    \E r \in RedeemRequests :
        /\ r.redeemCalls = 1
        /\ r.body.user # r.owner
        /\ SameAddress(r.body.user, r.owner)

(***************************************************************************)
(* C11: a redeem whose configured source chain equals the target chain of  *)
(* its position never invokes the bridge collaborator, passes empty        *)
(* calldata to the redeem settlement call, and reports bridge info of      *)
(* type "direct".                                                          *)
(***************************************************************************)
C11_SameChainIsDirect ==
    \A r \in RedeemRequests :
        (r.position # NoPosition /\ sourceChain = r.position.targetChain) =>
            /\ r.quoteCalls = 0
            /\ r.pc # "r_quote"
            /\ r.redeemCalls > 0 =>
                 /\ r.lifiData = <<>>
                 /\ r.bridgeInfo.type = "direct"
            /\ r.status = 200 =>
                 /\ r.redeemCalls = 1
                 /\ r.result.bridge.type = "direct"

\* a same-chain redeem succeeded with empty calldata and no quote asked
C11_Witness ==
    \E r \in RedeemRequests :
        /\ sourceChain = r.position.targetChain
        /\ r.status = 200
        /\ r.redeemCalls = 1
        /\ r.lifiData = <<>>
        /\ r.quoteCalls = 0
        /\ r.result.bridge.type = "direct"

(***************************************************************************)
(* C12: a redeem whose source chain differs from the target chain of its   *)
(* position asks for exactly one bridge quote, for exactly the resolved    *)
(* redeem amount, from the source chain to the position's target chain,    *)
(* addressed to the requesting user; the redeem settlement call carries    *)
(* exactly that quote's calldata, and the reported bridge info is of type  *)
(* "bridge" with that quote's tool, estimatedReceive and minReceive.       *)
(***************************************************************************)
ReportsQuote(info, quote) ==
    /\ info.type = "bridge"
    /\ info.tool = quote.bridgeTool
    /\ info.estimatedReceive.form = "str"
    /\ info.estimatedReceive.n = quote.estimatedReceive
    /\ info.minReceive.form = "str"
    /\ info.minReceive.n = quote.minReceive

PassedSignature(r) ==
    /\ r.sigChecks = 1
    /\ ~r.sigRaised
    /\ ~(r.pc = "done" /\ r.error = "Invalid user signature")

C12_CrossChainQuote ==
    \A r \in RedeemRequests :
        (r.position # NoPosition /\ sourceChain # r.position.targetChain) =>
            /\ r.quoteCalls <= 1
            /\ PassedSignature(r) <=> r.quoteCalls = 1
            /\ r.quoteCalls = 1 =>
                 r.quoteArgs = <<sourceChain, r.position.targetChain,
                                 r.redeemAmount, r.body.user>>
            /\ r.redeemCalls > 0 =>
                 /\ r.quoteCalls = 1
                 /\ r.quote # NoQuote
                 /\ r.quote.calldata # <<>>
                 /\ r.quote.calldata[2] = r.quoteArgs[1]
                 /\ r.quote.calldata[3] = r.quoteArgs[2]
                 /\ r.quote.calldata[4] = r.quoteArgs[3]
                 /\ r.quote.calldata[5] = r.quoteArgs[4]
                 /\ r.callAmount = r.redeemAmount
                 /\ r.lifiData = r.quote.calldata
                 /\ ReportsQuote(r.bridgeInfo, r.quote)
            /\ r.status = 200 => ReportsQuote(r.result.bridge, r.quote)

\* a cross-chain redeem of part of the position succeeded over a quote that
\* promises less than it estimates
C12_Witness ==
    \E r \in RedeemRequests :
        /\ sourceChain # r.position.targetChain
        /\ r.status = 200
        /\ r.redeemAmount < r.position.remainingWethAmount
        /\ r.quoteCalls = 1
        /\ r.quote.minReceive < r.quote.estimatedReceive
        /\ r.lifiData = r.quote.calldata
        /\ r.result.bridge.tool = "stargate"

(***************************************************************************)
(* C13: the intent verifier always hands the handler a boolean: for a      *)
(* malformed signature or any recovery failure it returns false instead of *)
(* raising, so that such a purchase or redeem request ends with the        *)
(* invalid-signature failure (403), not with the generic server-side       *)
(* failure, and issues no settlement call.                                 *)
(***************************************************************************)
MalformedSignature(r) == r.body.userSignature.form = "bad"

InvalidSignatureRefused(r) ==
    /\ r.pc = "done" /\ r.status = 403 /\ r.error = "Invalid user signature"
    /\ r.purchaseCalls = 0 /\ r.redeemCalls = 0

C13_VerifierAnswersBoolean ==
    \A s \in DOMAIN req :
        /\ ~req[s].sigRaised
        /\ (req[s].sigChecks = 1 /\ MalformedSignature(req[s]))
             => InvalidSignatureRefused(req[s])

\* what the verifier does guarantee: it answers false for a malformed
\* signature whenever the timestamp of the intent is an integer
C13_VerifierAnswersForIntegerTimestamp ==
    \A s \in DOMAIN req :
        req[s].kind # "none" /\ req[s].body.timestamp.form # "frac" =>
            /\ ~req[s].sigRaised
            /\ (req[s].sigChecks = 1 /\ MalformedSignature(req[s]))
                 => InvalidSignatureRefused(req[s])

(***************************************************************************)
(* C14: a signature is accepted only for exactly the fields of the request *)
(* it is checked against: a request that carries a signature which         *)
(* verifies for a purchase intent (user, usdcAmount, targetChain,          *)
(* expiryDays, timestamp) or a redeem intent (user, tokenId, resolved      *)
(* amount, timestamp) and that differs from that intent in a field is      *)
(* rejected with the invalid-signature failure when the signature is       *)
(* checked, and issues no settlement call.                                 *)
(***************************************************************************)
\* the signature verifies for the intent written in its message
VerifiesForItsIntent(sig) ==
    /\ sig.form = "sig"
    /\ Len(sig.msg) >= 2
    /\ SameAddress(sig.signer, sig.msg[2])

\* the value of a numeric field differs from n
ValueDiffers(field, n) == field.form \in {"frac", "undef", "max"} \/ field.n # n

PurchaseFieldChanged(r) ==
    LET b == r.body
        m == b.userSignature.msg
    IN \/ Len(m) # 6
       \/ m[1] # "Purchase"
       \/ ~SameAddress(m[2], b.user)
       \/ ValueDiffers(b.usdcAmount, m[3])
       \/ m[4] # b.targetChain
       \/ ValueDiffers(b.expiryDays, m[5])
       \/ ValueDiffers(b.timestamp, m[6])

RedeemFieldChanged(r) ==
    LET b == r.body
        m == b.userSignature.msg
    IN \/ Len(m) # 5
       \/ m[1] # "Redeem"
       \/ ~SameAddress(m[2], b.user)
       \/ ValueDiffers(b.tokenId, m[3])
       \/ m[4] # r.redeemAmount
       \/ ValueDiffers(b.timestamp, m[5])

SignedForAnotherIntent(r) ==
    /\ r.kind # "none"
    /\ VerifiesForItsIntent(r.body.userSignature)
    /\ r.sigChecks = 1
    /\ IF r.kind = "purchase" THEN PurchaseFieldChanged(r) ELSE RedeemFieldChanged(r)

C14_SignatureBoundToFields ==
    \A s \in DOMAIN req :
        SignedForAnotherIntent(req[s]) => InvalidSignatureRefused(req[s])

\* what the verifier does guarantee: the same, for every changed field but a
\* timestamp changed to a number that is not an integer
C14_SignatureBoundToIntegerFields ==
    \A s \in DOMAIN req :
        SignedForAnotherIntent(req[s]) /\ req[s].body.timestamp.form # "frac"
            => InvalidSignatureRefused(req[s])

(***************************************************************************)
(* C15: getUserPositions(user, maxScan) returns exactly the set of         *)
(* positions owned by the user whenever balanceOf(user) = k, all k owned   *)
(* token ids are below maxScan, ownership does not change during the scan  *)
(* and the detail reads succeed: none missing, none extra.                 *)
(***************************************************************************)
OwnedBy(user) == {t \in DOMAIN positions : SameAddress(positions[t].owner, user)}

ReturnedIds == {scan.result[k].tokenId : k \in 1..Len(scan.result)}

ReturnsExactlyOwned ==
    /\ ReturnedIds = OwnedBy(scan.user)
    /\ Len(scan.result) = Cardinality(OwnedBy(scan.user))
    /\ \A k \in 1..Len(scan.result) :
         LET p == scan.result[k]
         IN /\ p.owner = positions[p.tokenId].owner
            /\ p.wethAmount = positions[p.tokenId].wethAmount
            /\ p.remainingWethAmount = positions[p.tokenId].remainingWethAmount
            /\ p.expiry = positions[p.tokenId].expiry
            /\ p.targetChain = positions[p.tokenId].targetChain

\* the scan returned; it had read the balance k, the k tokens of the user
\* are below maxScan, no token changed hands since the scan began, and no
\* position read failed
ScannedUndisturbed ==
    /\ scan.pc = "returned"
    /\ scan.balance = Cardinality(OwnedBy(scan.user))
    /\ \A t \in OwnedBy(scan.user) : t < scan.maxScanId
    /\ ~scan.moved
    /\ ~scan.positionFailed

C16_StopsWhenAllFound ==
    /\ scan.balance <= 0 => (scan.checked = {} /\ scan.batches = 0)
    /\ scan.batches > 0 => scan.foundAtIssue < scan.balance
    /\ scan.pc \in {"batch", "pos_owner", "pos_detail"} =>
         Len(scan.found) < scan.balance
    /\ scan.pc = "returned" => Len(scan.result) <= scan.balance \/ scan.balance < 0

\* the scan returned when it had found as many positions as the balance
\* said, with token ids below maxScan left unchecked
C16_Witness ==
    /\ scan.pc = "returned"
    /\ scan.balance >= 1
    /\ Len(scan.result) = scan.balance
    /\ \E t \in 0..(scan.maxScanId - 1) : t \notin scan.checked

(***************************************************************************)
(* C17: getPosition(tokenId) returns NotFound (null) whenever the          *)
(* ownership lookup or the position-detail lookup fails for any reason and *)
(* never propagates the underlying error to its caller (the redeem handler *)
(* answers "Position not found", not the server-side failure); it returns  *)
(* a position only when both lookups succeeded.                            *)
(***************************************************************************)
C17_GetPositionNeverRaises ==
    \A r \in RedeemRequests :
         /\ (r.ownerOfFailed \/ r.detailFailed) =>
              /\ r.position = NoPosition
              /\ r.pc = "done" /\ r.status = 400 /\ r.error = "Position not found"
              /\ r.redeemCalls = 0
         /\ r.position # NoPosition =>
              /\ ~r.ownerOfFailed /\ ~r.detailFailed
              /\ r.position.tokenId = r.body.tokenId.n
              /\ r.position.owner = r.owner
         /\ (r.pc = "done" /\ r.error = "Position not found") =>
              (r.ownerOfFailed \/ r.detailFailed)

\* the owner of a token was read, the detail read failed, and the redeem
\* handler answered that the position was not found
C17_Witness ==
    \E r \in RedeemRequests :
        /\ r.detailFailed /\ ~r.ownerOfFailed
        /\ r.owner # <<>>
        /\ r.position = NoPosition
        /\ r.status = 400 /\ r.error = "Position not found"

(***************************************************************************)
(* C18: fetchAllPrices, once the oracle's supported-chain list has been    *)
(* resolved, returns exactly the prices of the chains whose individual     *)
(* lookup succeeded, in supported-chain order: a chain whose lookup fails  *)
(* or yields no price is omitted and never prevents the remaining chains   *)
(* from being resolved or the call from returning.                         *)
(***************************************************************************)
\* the chains among the first n listed whose lookup gave a price, in order
RECURSIVE ResolvedChains(_)
ResolvedChains(n) ==
    IF n = 0 THEN <<>>
    ELSE IF fetch.outcomes[n] = "price"
    THEN Append(ResolvedChains(n - 1), fetch.supported[n])
    ELSE ResolvedChains(n - 1)

C18_PartialFailureTolerated ==
    /\ fetch.listResolved => fetch.pc # "raised"
    /\ fetch.pc \in {"chain_object", "chain_field"} =>
         /\ fetch.k = Len(fetch.outcomes) + 1
         /\ fetch.k <= Len(fetch.supported)
    /\ (fetch.pc = "returned") =>
         /\ Len(fetch.outcomes) = Len(fetch.supported)
         /\ Len(fetch.result) = Len(ResolvedChains(Len(fetch.supported)))
         /\ \A j \in 1..Len(fetch.result) :
              /\ fetch.result[j].chain = ResolvedChains(Len(fetch.supported))[j]
              /\ fetch.result[j].chain \in fetch.table
              /\ fetch.result[j].priceWei = oracle.priceWei
              /\ fetch.result[j].timestampMs = oracle.timestampMs

\* the lookup of the first chain failed, the second chain has no price, and
\* the call returned the price of the third
C18_Witness ==
    /\ fetch.pc = "returned"
    /\ Len(fetch.supported) = 3
    /\ fetch.outcomes = <<"fail", "none", "price">>
    /\ Len(fetch.result) = 1
    /\ fetch.result[1].chain = fetch.supported[3]

(***************************************************************************)
(* C19: when the settlement-mutating call of a purchase or redeem request  *)
(* fails, reverts or times out, that request ends terminally with a        *)
(* failure response: the call is never re-issued for that request and the  *)
(* request never reports success.                                          *)
(***************************************************************************)
SettlementFailed(r) == r.settleOutcome \in {"reverted", "lost"}

C19_SettlementFailureIsTerminal ==
    \A s \in DOMAIN req :
        LET r == req[s]
        IN SettlementFailed(r) =>
             /\ r.pc = "done"
             /\ r.status = 500
             /\ r.error = (IF r.kind = "purchase" THEN "Purchase failed" ELSE "Redeem failed")
             /\ r.result = NoResult
             /\ r.responses = 1
             /\ r.purchaseCalls + r.redeemCalls = 1

\* a redeem whose transaction was never seen mined ended with the failure
\* response after its one call
C19_Witness ==
    \E s \in DOMAIN req :
        /\ req[s].kind = "redeem"
        /\ req[s].settleOutcome = "lost"
        /\ req[s].pc = "done"
        /\ req[s].status = 500
        /\ req[s].redeemCalls = 1

(***************************************************************************)
(* C20: an unexpected error from any collaborator during a purchase or     *)
(* redeem workflow (on the chain-support read, the oracle price read, the  *)
(* ownership/detail read, the bridge quote or the settlement call) is      *)
(* reported as the generic server-side failure, never as one of the tagged *)
(* domain failures.                                                        *)
(***************************************************************************)
\* the response of the handlers' catch blocks
GenericFailure(r) ==
    /\ r.status = 500
    /\ r.error = (IF r.kind = "purchase" THEN "Purchase failed" ELSE "Redeem failed")

\* one of the listed collaborators of the request raised
CollaboratorRaised(r, reads) == r.collaboratorError \in reads \/ SettlementFailed(r)

C20_UnexpectedErrorsAreGeneric ==
    \A s \in DOMAIN req :
        CollaboratorRaised(req[s], {"chain-support", "price", "ownership", "detail", "quote"}) =>
            /\ req[s].pc = "done"
            /\ GenericFailure(req[s])

\* what the handlers do keep: an error of the chain-support read, of the
\* bridge quote or of the settlement call is the generic failure, and an
\* error of the price read or of the position lookup is answered with the
\* 400 of the absent price or position
C20_ErrorsOutsideLookupsAreGeneric ==
    \A s \in DOMAIN req :
        LET r == req[s]
        IN /\ CollaboratorRaised(r, {"chain-support", "quote"}) =>
                r.pc = "done" /\ GenericFailure(r)
           /\ r.collaboratorError = "price" =>
                r.pc = "done" /\ r.status = 400
                              /\ r.error = "Failed to fetch gas price for chain"
           /\ r.collaboratorError \in {"ownership", "detail"} =>
                r.pc = "done" /\ r.status = 400 /\ r.error = "Position not found"

(***************************************************************************)
(* C21: the tokenId reported in a successful purchase result is the id of  *)
(* the position newly minted by that request's purchase settlement call.   *)
(***************************************************************************)
PurchaseSucceeded(r) == r.kind = "purchase" /\ r.pc = "done" /\ r.status = 200

C21_ReportsMintedTokenId ==
    \A s \in DOMAIN req :
        PurchaseSucceeded(req[s]) =>
            /\ req[s].minted \in DOMAIN positions
            /\ req[s].result.tokenId = req[s].minted

\* what the handler reports instead: no log of the receipt parses against
\* HOOK_ABI, so the reported tokenId is the 0n default whatever was minted
C21_ReportsDefaultTokenId ==
    \A s \in DOMAIN req :
        PurchaseSucceeded(req[s]) =>
            /\ req[s].minted \in DOMAIN positions
            /\ req[s].result.tokenId = 0

Resubmitted(r) ==
    /\ r.kind = "purchase"
    /\ r.prior # NoPrior
    /\ r.prior.body = r.body

\* a slot between two requests holds nothing of the requests it served
HoldsNothing(r) == [r EXCEPT !.prior = NoPrior] = IdleReq

StatelessBetweenRequests ==
    \A s \in DOMAIN req :
        LET r == req[s]
        IN /\ r.pc = "idle" => HoldsNothing(r)
           /\ (Resubmitted(r) /\ r.sigChecks = 1) =>
                /\ PassedSignature(r)
                /\ r.purchaseCalls = 1

\* the hook's positions change only in the step that settles the one call
\* of a request in flight
SettlesOnlyOnRequest ==
    positions' # positions =>
        \E s \in DOMAIN req :
            /\ req[s].pc \in {"p_settle", "r_settle"}
            /\ req[s].purchaseCalls + req[s].redeemCalls = 1
            /\ req'[s].pc = "done"
            /\ req'[s].kind = req[s].kind
            /\ req'[s].body = req[s].body

Refused(r, st, err) == r.pc = "done" /\ r.status = st /\ r.error = err

\* the collaborators of steps 2, 3 and 5 were not consulted from step k on
NotConsultedFrom(r, k) ==
    /\ k <= 2 => r.chainReads = 0 /\ r.pc # "p_chain"
    /\ k <= 3 => r.priceReads = 0 /\ r.pc # "p_price"
    /\ k <= 5 => r.sigChecks = 0
    /\ r.purchaseCalls = 0

PurchaseStepsInOrder(r) ==
    LET b == r.body
        fieldsMissing == missingPurchaseFields(b)
        chainAnswered == r.chainReads = 1 /\ r.collaboratorError # "chain-support"
        priceAnswered == r.priceReads = 1 /\ r.collaboratorError # "price"
        unsupported == b.targetChain \notin HookChains
        unpriced == b.targetChain # PricedChain
        stale == r.now - r.gasPrice.timestampMs > 300000
    IN /\ r.chainReads <= 1 /\ r.priceReads <= 1 /\ r.sigChecks <= 1
       /\ fieldsMissing =>
            Refused(r, 400, "Missing required fields") /\ NotConsultedFrom(r, 2)
       /\ (~fieldsMissing /\ chainAnswered /\ unsupported) =>
            Refused(r, 400, "Chain not supported") /\ NotConsultedFrom(r, 3)
       /\ (~fieldsMissing /\ chainAnswered /\ ~unsupported /\ priceAnswered /\ unpriced) =>
            Refused(r, 400, "Failed to fetch gas price for chain") /\ NotConsultedFrom(r, 5)
       /\ (~fieldsMissing /\ chainAnswered /\ ~unsupported /\ priceAnswered /\ ~unpriced
              /\ stale) =>
            Refused(r, 400, "Gas price is stale") /\ NotConsultedFrom(r, 5)
       /\ r.priceReads = 1 => r.chainReads = 1 /\ ~unsupported /\ ~fieldsMissing
       /\ r.sigChecks = 1 => priceAnswered /\ ~unpriced /\ ~stale

C24_PurchaseStepsInOrder == \A r \in PurchaseRequests : PurchaseStepsInOrder(r)

\* a purchase with a stale price and a signature by another key was refused
\* for the stale price, the verifier not invoked
C24_Witness ==
    \E r \in PurchaseRequests :
        /\ Refused(r, 400, "Gas price is stale")
        /\ ~PurchaseSignatureValid(r)
        /\ r.sigChecks = 0
        /\ r.priceReads = 1

(***************************************************************************)
(* C25: when several redeem preconditions are violated at once, the        *)
(* failure reported is the one of the earliest violated step in the order  *)
(* required fields, position exists, caller is owner, position not         *)
(* expired, amount within remaining, signature valid; and the bridge       *)
(* collaborator is never asked for a quote unless all six steps passed.    *)
(* (expired is the truth of step 4 for the request, read where r.now is    *)
(* set.)                                                                   *)
(***************************************************************************)
\* neither the verifier nor the bridge collaborator was consulted
NotVerifiedNorQuoted(r) == r.sigChecks = 0 /\ r.quoteCalls = 0 /\ r.redeemCalls = 0

RedeemStepsInOrder(r, expired) ==
    LET b == r.body
        fieldsMissing == missingRedeemFields(b)
        notFound == r.ownerOfFailed \/ r.detailFailed
        found == r.position # NoPosition
        notOwner == ~SameAddress(r.position.owner, b.user)
        above == b.wethAmount.form # "max" /\ b.wethAmount.n > r.position.remainingWethAmount
    IN /\ fieldsMissing =>
            /\ Refused(r, 400, "Missing required fields")
            /\ ~found /\ ~notFound /\ NotVerifiedNorQuoted(r)
       /\ notFound =>
            /\ Refused(r, 400, "Position not found")
            /\ ~found /\ NotVerifiedNorQuoted(r)
       /\ (found /\ notOwner) =>
            Refused(r, 403, "Not position owner") /\ NotVerifiedNorQuoted(r)
       /\ (found /\ ~notOwner /\ expired) =>
            /\ Refused(r, 400, "Position expired, use claimExpired instead")
            /\ NotVerifiedNorQuoted(r)
       /\ (found /\ ~notOwner /\ ~expired /\ above) =>
            Refused(r, 400, "Insufficient remaining amount") /\ NotVerifiedNorQuoted(r)
       /\ r.sigChecks > 0 =>
            found /\ ~fieldsMissing /\ ~notOwner /\ ~expired /\ ~above
       /\ r.quoteCalls > 0 =>
            /\ r.sigChecks = 1
            /\ RedeemSignatureValid(r, r.redeemAmount)

C25_RedeemStepsInOrder ==
    \A r \in RedeemRequests :
        RedeemStepsInOrder(r, r.now \div 1000 >= r.position.expiry)

\* what the handler does: the order of the steps with step 4 as the code
\* takes it (a position counts as expired from the second after its expiry)
C25_RedeemStepsInOrderAfterExpirySecond ==
    \A r \in RedeemRequests :
        RedeemStepsInOrder(r, r.now \div 1000 > r.position.expiry)

(***************************************************************************)
(* C26: every redeem settlement call carries an amount with                *)
(* 0 < amount <= remaining, where remaining is the value read in that      *)
(* request: a request with amount zero, and a sentinel ("max") request on  *)
(* a position whose remaining is 0, never reach the settlement             *)
(* collaborator.                                                           *)
(***************************************************************************)
C26_RedeemAmountPositive ==
    \A r \in RedeemRequests :
        r.redeemCalls > 0 =>
            /\ 0 < r.callAmount
            /\ r.callAmount <= r.position.remainingWethAmount

\* what the handler does guarantee: the amount of the call is not above the
\* remaining it read, and not negative
C26_RedeemAmountWithinRemaining ==
    \A r \in RedeemRequests :
        r.redeemCalls > 0 =>
            /\ 0 <= r.callAmount
            /\ r.callAmount <= r.position.remainingWethAmount

(***************************************************************************)
(* C27: every purchase settlement call carries usdcAmount > 0 and          *)
(* expirySeconds > 0 (expiryDays a positive whole number): a request whose *)
(* amount or expiry is zero or negative, in whatever JSON form it is sent  *)
(* (number or numeric string), is rejected before the settlement call.     *)
(***************************************************************************)
C27_PurchaseAmountAndExpiryPositive ==
    \A r \in PurchaseRequests :
        /\ r.purchaseCalls > 0 => r.purchaseArgs[1] > 0 /\ r.purchaseArgs[5] > 0
        /\ (r.body.usdcAmount.n <= 0 \/ r.body.expiryDays.n <= 0) => r.purchaseCalls = 0

\* what the handler does guarantee: a zero sent as a JSON number is refused
\* as a missing field, and no call carries a negative amount or expiry
C27_NumberZeroIsRefused ==
    \A r \in PurchaseRequests :
        /\ r.purchaseCalls > 0 => r.purchaseArgs[1] >= 0 /\ r.purchaseArgs[5] >= 0
        /\ (r.body.usdcAmount = JNum(0) \/ r.body.expiryDays = JNum(0)) =>
             /\ Refused(r, 400, "Missing required fields")
             /\ r.purchaseCalls = 0

(***************************************************************************)
(* C28: there is no serialization of redeems in the relayer: an            *)
(* interleaving is reachable in which two concurrent redeem requests for   *)
(* the same position both read the same remaining value, both pass the     *)
(* balance check of step 5 and both issue a redeem settlement call.  As a  *)
(* property of every state: a redeem in flight can always take its next    *)
(* step, whatever the other requests are doing, and a request that issued  *)
(* its call had passed the balance check against the remaining it read.    *)
(***************************************************************************)
C28_RedeemsNotSerialized ==
    \A s \in DOMAIN req :
        /\ req[s].pc = "r_owner" => ENABLED RedeemOwnerOf(s)
        /\ req[s].pc = "r_detail" => ENABLED RedeemDetail(s)
        /\ req[s].pc = "r_quote" => ENABLED RedeemQuote(s)
        /\ req[s].pc = "r_settle" => ENABLED RedeemSettle(s)
        /\ req[s].redeemCalls = 1 =>
             req[s].callAmount <= req[s].position.remainingWethAmount

\* two redeems of the same position have their settlement calls under way
\* at once; both read the same remaining and passed the balance check, and
\* together they ask for more than remains
C28_Witness ==
    \E s1, s2 \in DOMAIN req :
        /\ s1 # s2
        /\ req[s1].pc = "r_settle" /\ req[s2].pc = "r_settle"
        /\ req[s1].redeemCalls = 1 /\ req[s2].redeemCalls = 1
        /\ req[s1].body.tokenId = req[s2].body.tokenId
        /\ req[s1].position.remainingWethAmount = positions[0].remainingWethAmount
        /\ req[s2].position.remainingWethAmount = positions[0].remainingWethAmount
        /\ req[s1].callAmount <= positions[0].remainingWethAmount
        /\ req[s2].callAmount <= positions[0].remainingWethAmount
        /\ req[s1].callAmount + req[s2].callAmount > positions[0].remainingWethAmount

(***************************************************************************)
(* C29: within getUserPositions, at most batchSize batch ownership checks  *)
(* are in flight at any moment, and no ownership check of batch n+1 is     *)
(* issued before every ownership check of batch n has completed            *)
(* (succeeded or failed).                                                  *)
(***************************************************************************)
\* the checks in flight are checks of the batch at hand, at most batchSize
BoundedFanOut ==
    /\ Cardinality(scan.pending) <= batchSize
    /\ scan.pending \subseteq scan.i..(scan.limit - 1)
    /\ scan.pc # "batch" => scan.pending = {}

\* the step that issues a batch finds no check in flight but, at most, the
\* one it sees complete; every check it issues is for an id after the batch
\* before
BatchAfterBatch ==
    scan'.batches = scan.batches + 1 =>
        /\ Cardinality(scan.pending) <= 1
        /\ scan'.pending \cap scan.pending = {}
        /\ \A t \in scan'.pending : \A u \in scan.checked : u < t
        /\ scan.batches > 0 => scan'.i = scan.i + batchSize

C29_BatchesBoundedAndAwaited ==
    /\ []BoundedFanOut
    /\ [][BatchAfterBatch]_vars

\* the second batch is in flight, batchSize checks at once
C29_Witness ==
    /\ scan.pc = "batch"
    /\ scan.batches = 2
    /\ Cardinality(scan.pending) = batchSize

(***************************************************************************)
(* C30: in getUserPositions a token id whose ownership lookup fails is     *)
(* skipped without aborting the scan: the remaining ids of the batch and   *)
(* the later batches are still examined, and the result is the same as if  *)
(* that id were owned by another address (no position is read for it, it   *)
(* is not in the result, and the scan ends only by having found as many    *)
(* positions as the balance or by having examined every id).               *)
(***************************************************************************)
C30_FailedLookupIsSkipped ==
    /\ ReturnedIds \cap scan.failed = {}
    /\ scan.pc \in {"pos_owner", "pos_detail"} => scan.cursor \notin scan.failed
    /\ scan.pc = "batch" =>
         scan.pending \cup DOMAIN scan.results = scan.i..(scan.limit - 1)
    /\ (scan.pc = "returned" /\ ~scan.balanceFailed /\ scan.balance > 0) =>
         \/ Len(scan.result) >= scan.balance
         \/ scan.checked = 0..(scan.maxScanId - 1)

\* the lookup of an id of the first batch failed, and the scan went on to
\* return a position of a later batch
C30_Witness ==
    /\ scan.pc = "returned"
    /\ \E t \in scan.failed, u \in ReturnedIds : t < batchSize /\ batchSize <= u


(***************************************************************************)
(* C31: getUserPositions(user, maxScan) always terminates, examining only  *)
(* token ids in [0, maxScan) and issuing at most ceil(maxScan / batchSize) *)
(* batches, even when the user's balance exceeds the number of owned       *)
(* tokens findable below maxScan.                                          *)
(***************************************************************************)
\* only ids below maxScanId are examined, in at most
\* ceil(maxScanId / batchSize) batches
ScanWithinLimit ==
    /\ scan.checked \subseteq 0..(scan.maxScanId - 1)
    /\ scan.pc \in {"pos_owner", "pos_detail"} => scan.cursor < scan.maxScanId
    /\ scan.batches * batchSize < scan.maxScanId + batchSize

C31_ScanTerminatesWithinLimit ==
    /\ []ScanWithinLimit
    /\ (scan.pc # "idle") ~> (scan.pc = "returned")

\* the scan returned after every id below maxScanId with fewer positions
\* than the balance it read
C31_Witness ==
    /\ scan.pc = "returned"
    /\ scan.maxScanId > 0
    /\ scan.checked = 0..(scan.maxScanId - 1)
    /\ scan.batches * batchSize >= scan.maxScanId
    /\ scan.balance > Len(scan.result)


(***************************************************************************)
(* C32: when the bridge quote of a cross-chain redeem fails, the redeem    *)
(* ends with a failure response and issues no redeem settlement call.      *)
(***************************************************************************)
C32_FailedQuoteEndsRedeem ==
    \A s \in DOMAIN req :
        req[s].collaboratorError = "quote" =>
            /\ req[s].kind = "redeem"
            /\ req[s].pc = "done"
            /\ req[s].status = 500
            /\ req[s].responses = 1
            /\ req[s].result = NoResult
            /\ req[s].redeemCalls = 0

\* the quote of a redeem to another chain was asked for and failed
C32_Witness ==
    \E s \in DOMAIN req :
        /\ req[s].collaboratorError = "quote"
        /\ req[s].quoteCalls = 1
        /\ ~isSameChain(req[s].quoteArgs[1], req[s].quoteArgs[2])
        /\ req[s].pc = "done"


(***************************************************************************)
(* C33: every bridge quote request carries slippage = the configured       *)
(* maxSlippageBps / 10000, for every configured value including 0 (the     *)
(* default 100 gives 0.01).                                                *)
(***************************************************************************)
\* the query that was sent carries the number bps / 10000
CarriesSlippageOf(bps) ==
    /\ lifi.query.slippage.form = "str"
    /\ lifi.query.slippage.den > 0
    /\ lifi.query.slippage.num * 10000 = bps * lifi.query.slippage.den

C33_SlippageIsBpsOverTenThousand ==
    (lifi.query # NoQuery /\ lifi.maxSlippageBps.form = "num") =>
        CarriesSlippageOf(lifi.maxSlippageBps.n)

\* what holds: every value but 0 is carried as configured, and the default
\* gives 0.01
C33_NonZeroSlippageIsBpsOverTenThousand ==
    /\ (lifi.query # NoQuery /\ lifi.maxSlippageBps.form = "num"
          /\ lifi.maxSlippageBps.n # 0) =>
            CarriesSlippageOf(lifi.maxSlippageBps.n)
    /\ (lifi.query # NoQuery /\ lifi.env = JUndef) =>
            lifi.query.slippage = [form |-> "str", num |-> 1, den |-> 100]


(***************************************************************************)
(* C34: the price and position read operations (the price of a chain and   *)
(* of all chains, the staleness test, getPosition, getUserPositions and    *)
(* the quote lookup) never invoke the purchase or the redeem settlement    *)
(* and leave every position's state unchanged.                             *)
(***************************************************************************)
\* a step of a read operation
ReadStep ==
    \/ ScanStart
    \/ ScanStep
    \/ NextPrices
    \/ NextQuote

\* the settlement calls made so far, per request slot
SettlementCalls ==
    [s \in DOMAIN req |-> <<req[s].purchaseCalls, req[s].redeemCalls>>]

ReadsChangeNothing ==
    ReadStep => (positions' = positions /\ SettlementCalls' = SettlementCalls)

C34_ReadsLeavePositionsAlone == [][ReadsChangeNothing]_vars

\* a scan read positions and returned them, and they are as they were minted
C34_Witness ==
    /\ scan.pc = "returned"
    /\ scan.result # <<>>
    /\ \A t \in DOMAIN positions :
          positions[t].remainingWethAmount = positions[t].wethAmount
    /\ \A s \in DOMAIN req : req[s].purchaseCalls = 0 /\ req[s].redeemCalls = 0


(***************************************************************************)
(* C35: provided every collaborator call eventually returns or fails,      *)
(* every purchase and redeem request eventually ends with exactly one      *)
(* outcome: one result object or one failure response, never both and      *)
(* never two responses.                                                    *)
(***************************************************************************)
\* no response before the handler ends, and one when it has ended: status
\* 200 with a result, or an error status with an error and no result
ExactlyOneOutcome(r) ==
    /\ r.pc # "done" => r.responses = 0
    /\ r.pc = "done" =>
         /\ r.responses = 1
         /\ \/ r.status = 200 /\ r.result # NoResult /\ r.error = ""
            \/ r.status \in {400, 403, 500} /\ r.result = NoResult /\ r.error # ""

ResultOwnedByUser ==
    \A k \in 1..Len(scan.result) : SameAddress(scan.result[k].owner, scan.user)

C36_ReturnedPositionsOwnedByUser == scan.pc = "returned" => ResultOwnedByUser

\* what holds: the same when no token changed hands during the scan
C36_ReturnedPositionsOwnedByUserUndisturbed ==
    (scan.pc = "returned" /\ ~scan.moved) => ResultOwnedByUser


(***************************************************************************)
(* C37: a cross-chain redeem whose source chain or target chain has no     *)
(* entry in the bridge client's chain-id table fails without sending any   *)
(* quote request to the aggregator and without any redeem settlement call; *)
(* with the default source chain name "sepolia" this applies to every      *)
(* position whose target chain differs from it.                            *)
(***************************************************************************)
\* the request failed, no query went to the aggregator and no settlement
\* call was made
FailedBeforeQuote(r) ==
    /\ r.pc = "done"
    /\ r.status = 500
    /\ r.result = NoResult
    /\ r.quote = NoQuote
    /\ r.collaboratorError # "quote"
    /\ r.redeemCalls = 0

ReturnOfNoPositions == <<>>

C38_ScanNeverRaises ==
    /\ scan.pc \in {"idle", "balance", "batch", "pos_owner", "pos_detail", "returned"}
    /\ scan.balanceFailed => (scan.pc = "returned" /\ scan.result = ReturnOfNoPositions)
    /\ (scan.pc = "returned" /\ scan.balance = 0) => scan.result = ReturnOfNoPositions

\* the balance read of a user who owns a token failed and the scan returned
C38_Witness ==
    /\ scan.balanceFailed
    /\ scan.pc = "returned"
    /\ OwnedBy(scan.user) # {}

====
